---- MODULE Spec2Model ----
(***************************************************************************)
(* A model of the order-execution coordination layer of ritmex-bot:       *)
(* the RateLimitController (src/src/core/lib/rate-limit.ts), the maker     *)
(* engine's tick loop, order-stream handler and lock bookkeeping           *)
(* (src/src/core/maker-engine.ts) and the depth-imbalance engine's tick    *)
(* (src/unnamed/part_001).                                                 *)
(*                                                                         *)
(* Time is a natural number `now` (Date.now()) in scaled units; the        *)
(* controller's baseInterval, pauseMs and recoveryMs are constructor       *)
(* parameters and are given small scaled values.                           *)
(***************************************************************************)
EXTENDS Integers, Sequences, FiniteSets, TLC

\* ------------------------------------------------------------------------
\* Model parameters
\* ------------------------------------------------------------------------
baseInterval == 1
pauseMs == 2
recoveryMs == 3
\* how far the clock runs past the moment the controller is constructed
Horizon == 7

\* Date.now() at construction is far from the epoch 0 the fields start at
StartTime == 2 * baseInterval + recoveryMs
MaxTime == StartTime + Horizon

VARIABLES
  now,            \* Date.now()
  rateLimit,      \* the RateLimitController's fields
  rlOp,           \* history: the controller's last call, its result and the fields before it
  lastRunAt,      \* history: time of the last beforeCycle that returned "run" (0: none)
  lastStampAt,    \* history: time of the last call documented to stamp lastCycleAt (0: none)
  lastOverloadAt  \* history: time of the last registerRateLimit (0: none)

rlVars == <<now, rateLimit, rlOp, lastRunAt, lastStampAt, lastOverloadAt>>
rlHistory == <<rlOp, lastRunAt, lastStampAt, lastOverloadAt>>

VARIABLES
  accountSnapshot,            \* <<>> is null, else <<position of the symbol>>
  depthSnapshot,              \* <<>> is null, else <<top of the book>>
  openOrders,                 \* the engine's cache of resting orders
  pendingCancelOrders,        \* ids with a cancel already requested
  desiredOrders,              \* the quotes computed by the last tick
  initialOrderSnapshotReady,
  initialOrderResetDone,
  processing,                 \* the tick re-entrancy flag
  pc,                         \* where the running tick is ("idle": none runs)
  frame                       \* the running tick's local variables

engineVars == <<accountSnapshot, depthSnapshot, openOrders, pendingCancelOrders,
                desiredOrders, initialOrderSnapshotReady, initialOrderResetDone,
                processing, pc, frame>>

VARIABLES
  locks,          \* category -> busy flag
  timers,         \* category -> a release timer is armed
  pending,        \* category -> pending order id (0: none)
  lockOp,         \* history: the last operation on the lock tables
  started         \* history: category -> operations started since the lock was last free

coordVars == <<locks, timers, pending, lockOp, started>>

VARIABLES
  exOrders,       \* the exchange: resting orders of the symbol
  orderFeed,      \* the exchange: order snapshots pushed and not yet delivered
  nextId          \* the exchange: next order id

exVars == <<exOrders, orderFeed, nextId>>

VARIABLES
  positionSide,        \* depth-imbalance engine: "LONG", "SHORT" or "none" (null)
  entryBidQty,
  entryAskQty,
  currentTradeAmount,
  currentLossLimit

imbVars == <<positionSide, entryBidQty, entryAskQty, currentTradeAmount, currentLossLimit>>

VARIABLES
  tradingStats,    \* [total, hourly]: the engine's trading statistics
  hourlyExport,    \* [pending, written]: hourly records handed to the CSV logger
  statsHistory     \* history: own-symbol trade events received, and the last operation

statsVars == <<tradingStats, hourlyExport, statsHistory>>

VARIABLES
  listeners,       \* the handlers registered for "update", in registration order
  delivery         \* history: the emits so far and what the last one did

listenerVars == <<listeners, delivery>>

VARIABLES
  offset           \* offset maker: position, book levels, and the running tick

offsetVars == <<offset>>

\* ------------------------------------------------------------------------
\* RateLimitController (pure transcriptions; pausedUntil: <<>> is null)
\* ------------------------------------------------------------------------
RateLimitInit ==
  [state |-> "normal", pausedUntil |-> <<>>, lastCycleAt |-> 0,
   lastRateLimitAt |-> 0, entriesSuppressed |-> FALSE]

currentInterval(rl) ==
  IF rl.state = "degraded" THEN baseInterval * 2
  ELSE IF rl.state = "paused" THEN baseInterval * 2
  ELSE baseInterval

shouldBlockEntries(rl) == rl.entriesSuppressed \/ rl.state = "paused"

suppressEntries(rl) == [rl EXCEPT !.entriesSuppressed = TRUE]

allowEntries(rl) == [rl EXCEPT !.entriesSuppressed = FALSE]

\* the pause window has elapsed: paused -> degraded
PauseExpired(rl, t) ==
  rl.state = "paused" /\ rl.pausedUntil # <<>> /\ t >= rl.pausedUntil[1]

AfterPauseDemotion(rl) == [rl EXCEPT !.state = "degraded", !.pausedUntil = <<>>]

\* mutant: the elapsed pause window resets the controller to normal
beforeCycle_ToNormal(rl, t) ==
  IF rl.state = "paused" /\ ~PauseExpired(rl, t)
  THEN <<"paused", [rl EXCEPT !.lastCycleAt = t]>>
  ELSE LET r1 == IF rl.state = "paused"
                 THEN [rl EXCEPT !.state = "normal", !.pausedUntil = <<>>]
                 ELSE rl
       IN IF t - r1.lastCycleAt < currentInterval(r1)
          THEN <<"skip", r1>>
          ELSE <<"run", [r1 EXCEPT !.lastCycleAt = t]>>

\* mutant: the interval is not doubled while degraded
beforeCycle_BaseIntervalOnly(rl, t) ==
  IF rl.state = "paused" /\ ~PauseExpired(rl, t)
  THEN <<"paused", [rl EXCEPT !.lastCycleAt = t]>>
  ELSE LET r1 == IF rl.state = "paused" THEN AfterPauseDemotion(rl) ELSE rl
       IN IF t - r1.lastCycleAt < baseInterval
          THEN <<"skip", r1>>
          ELSE <<"run", [r1 EXCEPT !.lastCycleAt = t]>>

\* mutant: a skipped cycle stamps lastCycleAt as well
beforeCycle_StampOnSkip(rl, t) ==
  IF rl.state = "paused" /\ ~PauseExpired(rl, t)
  THEN <<"paused", [rl EXCEPT !.lastCycleAt = t]>>
  ELSE LET r1 == IF rl.state = "paused" THEN AfterPauseDemotion(rl) ELSE rl
       IN IF t - r1.lastCycleAt < currentInterval(r1)
          THEN <<"skip", [r1 EXCEPT !.lastCycleAt = t]>>
          ELSE <<"run", [r1 EXCEPT !.lastCycleAt = t]>>

\* mutant: an elapsed pause window is not noticed
beforeCycle_NoDemotion(rl, t) ==
  IF rl.state = "paused"
  THEN <<"paused", [rl EXCEPT !.lastCycleAt = t]>>
  ELSE IF t - rl.lastCycleAt < currentInterval(rl)
       THEN <<"skip", rl>>
       ELSE <<"run", [rl EXCEPT !.lastCycleAt = t]>>

\* beforeCycle(): <<decision, fields after the call>>
beforeCycle(rl, t) ==
  IF rl.state = "paused" /\ ~PauseExpired(rl, t)
  THEN <<"paused", [rl EXCEPT !.lastCycleAt = t]>>
  ELSE LET r1 == IF rl.state = "paused" THEN AfterPauseDemotion(rl) ELSE rl
       IN IF t - r1.lastCycleAt < currentInterval(r1)
          THEN <<"skip", r1>>
          ELSE <<"run", [r1 EXCEPT !.lastCycleAt = t]>>

\* mutant: the first overload pauses at once
registerRateLimit_PauseAtOnce(rl, t) ==
  LET r1 == [rl EXCEPT !.lastRateLimitAt = t]
  IN IF r1.state = "normal"
     THEN suppressEntries([r1 EXCEPT !.state = "paused", !.pausedUntil = <<t + pauseMs>>,
                                     !.lastCycleAt = t])
     ELSE suppressEntries([r1 EXCEPT !.state = "paused", !.pausedUntil = <<t + pauseMs>>])

registerRateLimit(rl, t) ==
  LET r1 == [rl EXCEPT !.lastRateLimitAt = t]
  IN IF r1.state = "normal"
     THEN suppressEntries([r1 EXCEPT !.state = "degraded", !.lastCycleAt = t])
     ELSE IF r1.state = "degraded"
     THEN suppressEntries([r1 EXCEPT !.state = "paused", !.pausedUntil = <<t + pauseMs>>])
     ELSE suppressEntries([r1 EXCEPT !.pausedUntil = <<t + pauseMs>>])

\* mutant: recovery does not wait for the recovery window
onCycleComplete_NoWindow(rl, hadRateLimit, t) ==
  IF hadRateLimit THEN rl
  ELSE IF rl.state = "degraded" /\ rl.lastRateLimitAt > 0
       THEN [allowEntries([rl EXCEPT !.state = "normal"]) EXCEPT !.lastRateLimitAt = 0]
       ELSE rl

onCycleComplete(rl, hadRateLimit, t) ==
  IF hadRateLimit THEN rl
  ELSE LET r1 == IF rl.state = "degraded" /\ rl.lastRateLimitAt > 0
                    /\ t - rl.lastRateLimitAt >= recoveryMs
                 THEN [allowEntries([rl EXCEPT !.state = "normal"])
                         EXCEPT !.lastRateLimitAt = 0]
                 ELSE rl
       IN IF r1.state = "normal" /\ r1.entriesSuppressed /\ r1.lastRateLimitAt = 0
          THEN allowEntries(r1)
          ELSE r1

\* ------------------------------------------------------------------------
\* The controller driven by an arbitrary caller
\* ------------------------------------------------------------------------
NoOp == [op |-> "none", ret |-> "none", from |-> RateLimitInit, at |-> 0,
         runBefore |-> 0, had |-> FALSE]

InitRL ==
  /\ now = StartTime
  /\ rateLimit = RateLimitInit
  /\ rlOp = NoOp
  /\ lastRunAt = 0
  /\ lastStampAt = 0
  /\ lastOverloadAt = 0

Advance ==
  /\ now < MaxTime
  /\ now' = now + 1
  /\ UNCHANGED <<rateLimit, rlOp, lastRunAt, lastStampAt, lastOverloadAt>>
  /\ UNCHANGED <<engineVars, coordVars, exVars, imbVars, statsVars, listenerVars, offsetVars>>

CallBeforeCycle ==
  LET res == beforeCycle(rateLimit, now)
  IN /\ rateLimit' = res[2]
     /\ rlOp' = [op |-> "beforeCycle", ret |-> res[1], from |-> rateLimit,
                 at |-> now, runBefore |-> lastRunAt, had |-> FALSE]
     /\ lastRunAt' = IF res[1] = "run" THEN now ELSE lastRunAt
     /\ lastStampAt' = IF res[1] \in {"run", "paused"} THEN now ELSE lastStampAt
     /\ UNCHANGED <<now, lastOverloadAt>>
     /\ UNCHANGED <<engineVars, coordVars, exVars, imbVars, statsVars, listenerVars, offsetVars>>

CallRegisterRateLimit ==
  /\ rateLimit' = registerRateLimit(rateLimit, now)
  /\ rlOp' = [op |-> "registerRateLimit", ret |-> "none", from |-> rateLimit,
              at |-> now, runBefore |-> lastRunAt, had |-> FALSE]
  /\ lastOverloadAt' = now
  /\ lastStampAt' = IF rateLimit.state = "normal" THEN now ELSE lastStampAt
  /\ UNCHANGED <<now, lastRunAt>>
  /\ UNCHANGED <<engineVars, coordVars, exVars, imbVars, statsVars, listenerVars, offsetVars>>

CallOnCycleComplete ==
  \E had \in BOOLEAN :
    /\ rateLimit' = onCycleComplete(rateLimit, had, now)
    /\ rlOp' = [op |-> "onCycleComplete", ret |-> "none", from |-> rateLimit,
                at |-> now, runBefore |-> lastRunAt, had |-> had]
    /\ UNCHANGED <<now, lastRunAt, lastStampAt, lastOverloadAt>>
    /\ UNCHANGED <<engineVars, coordVars, exVars, imbVars, statsVars, listenerVars, offsetVars>>

NextRL ==
  \/ Advance
  \/ CallBeforeCycle
  \/ CallRegisterRateLimit
  \/ CallOnCycleComplete

\* ------------------------------------------------------------------------
\* Engine parameters (prices in ticks, amounts in lots)
\* ------------------------------------------------------------------------
\* how far the clock runs while an engine is observed
EngineHorizon == 1
\* how many orders the exchange accepts in one run
MaxOrders == 1
\* how many order snapshots can be in flight to the engine
MaxFeed == 1
\* resting orders a previous run may have left at the exchange
MaxHistorical == 1

EngineMaxTime == StartTime + EngineHorizon
\* how far the clock runs while the depth-imbalance engine is observed
ImbalanceHorizon == 4
ImbalanceMaxTime == StartTime + ImbalanceHorizon

EPS == 1
tradeAmount == 1
lossLimit == 1
\* depth-imbalance engine: amounts in units of tradeAmount / 256, so that every
\* amount the entry loop computes, the first one below the floor included, is whole
depthTradeAmount == 256
\* mutant: the entry loop has no floor
minTradeAmount_NoFloor == depthTradeAmount - depthTradeAmount
minTradeAmount == depthTradeAmount \div 128
maxRetryAttempts == 10
depthLossLimit == 2
\* the current loss limit is counted in units of 1 / LossUnit, so that its
\* halvings stay whole
LossUnit == 256
minDepthQty == 6
imbalanceRatio == 6
\* closeBalanceRatio, in percent
closeBalanceRatio == 70
bidOffset == 0
askOffset == 0
priceTick == 1
priceChaseThreshold == 0
\* maxCloseSlippagePct, in percent
maxCloseSlippagePct == 25

Categories == {"LIMIT", "MARKET_CLOSE"}
LiveStatuses == {"NEW", "PARTIALLY_FILLED"}

Abs(x) == IF x < 0 THEN -x ELSE x

NoPosition == [positionAmt |-> 0, entryPrice |-> 0, markPrice |-> 0]

\* the account snapshots the exchange can push (the symbol's position)
AccountValues ==
  { NoPosition,
    [positionAmt |-> 1, entryPrice |-> 2, markPrice |-> 1],
    [positionAmt |-> 1, entryPrice |-> 2, markPrice |-> 3],
    [positionAmt |-> -1, entryPrice |-> 0, markPrice |-> 3] }

\* the books the exchange can push: a price of 0 is an empty side
DepthValues ==
  { [bid |-> 0, ask |-> 0, bidQty |-> 0, askQty |-> 0],
    [bid |-> 1, ask |-> 2, bidQty |-> 1, askQty |-> 1],
    [bid |-> 2, ask |-> 3, bidQty |-> 1, askQty |-> 1] }

\* getPosition(snapshot, symbol): zeros when there is no snapshot / no position
getPosition(acct) == IF acct = <<>> THEN NoPosition ELSE acct[1]

\* getTopPrices(depth): 0 stands for null
getTopPrices(depth) ==
  IF depth = <<>> THEN [topBid |-> 0, topAsk |-> 0]
  ELSE [topBid |-> depth[1].bid, topAsk |-> depth[1].ask]

roundDownToTick(value, tick) == (value \div tick) * tick

\* computePositionPnl(position, bid, ask): marked at the side one would close at
computePositionPnl(position, bid, ask) ==
  IF position.positionAmt > 0 THEN (bid - position.entryPrice) * position.positionAmt
  ELSE IF position.positionAmt < 0 THEN (position.entryPrice - ask) * (-position.positionAmt)
  ELSE 0

\* shouldStopLoss(position, bid, ask, lossLimit)
\* mutant: a loss equal to the limit does not trigger
shouldStopLoss_Strict(position, bid, ask, limit) ==
  /\ Abs(position.positionAmt) >= EPS
  /\ computePositionPnl(position, bid, ask) < -limit

shouldStopLoss(position, bid, ask, limit) ==
  /\ Abs(position.positionAmt) >= EPS
  /\ computePositionPnl(position, bid, ask) <= -limit

isReady == accountSnapshot # <<>> /\ depthSnapshot # <<>>

OrderIds(orders) == {o.orderId : o \in orders}

MinId(orders) == CHOOSE o \in orders : \A p \in orders : o.orderId <= p.orderId

\* ------------------------------------------------------------------------
\* Order planner: diff of the resting orders against the desired quotes
\* ------------------------------------------------------------------------
MatchesTarget(o, t, tolerance) ==
  /\ o.side = t.side
  /\ o.reduceOnly = t.reduceOnly
  /\ Abs(o.price - t.price) <= tolerance

\* the targets from index i on, one after the other: each keeps the oldest resting
\* order that matches it and is not yet kept for an earlier target, or is placed
RECURSIVE planFrom(_, _, _, _, _)
planFrom(open, targets, tolerance, i, kept) ==
  IF i > Len(targets) THEN [kept |-> kept, toPlace |-> <<>>]
  ELSE LET m == {o \in open \ kept : MatchesTarget(o, targets[i], tolerance)}
       IN IF m = {}
          THEN LET rest == planFrom(open, targets, tolerance, i + 1, kept)
               IN [kept |-> rest.kept, toPlace |-> <<targets[i]>> \o rest.toPlace]
          ELSE planFrom(open, targets, tolerance, i + 1, kept \cup {MinId(m)})

\* mutant: a resting order that matches a target's side and reduce-only flag is
\* never cancelled, whatever its price
makeOrderPlan_KeepSameSide(open, targets, tolerance) ==
  LET r == planFrom(open, targets, tolerance, 1, {})
      sameSide(o) == \E k \in 1..Len(targets) :
                        o.side = targets[k].side /\ o.reduceOnly = targets[k].reduceOnly
  IN [toCancel |-> {o \in open \ r.kept : ~sameSide(o)}, toPlace |-> r.toPlace]

\* mutant: prices are compared exactly
makeOrderPlan_NoTolerance(open, targets, tolerance) ==
  LET r == planFrom(open, targets, 0, 1, {})
  IN [toCancel |-> open \ r.kept, toPlace |-> r.toPlace]

makeOrderPlan(open, targets, tolerance) ==
  LET r == planFrom(open, targets, tolerance, 1, {})
  IN [toCancel |-> open \ r.kept, toPlace |-> r.toPlace]

\* ------------------------------------------------------------------------
\* Order coordinator: the lock tables (locks, timers, pending)
\* ------------------------------------------------------------------------
Tables == [locks |-> locks, timers |-> timers, pending |-> pending]

\* mutant: the busy flag is never seen
isOperating_Never(T, type) == FALSE

isOperating(T, type) == T.locks[type]

\* mutant: acquire arms no timer
lockOperating_NoTimer(T, type) == [T EXCEPT !.locks[type] = TRUE]

\* acquire: mark busy and arm the release timer
lockOperating(T, type) ==
  [T EXCEPT !.locks[type] = TRUE, !.timers[type] = TRUE]

\* release: clear busy, pending id and timer
unlockOperating(T, type) ==
  [T EXCEPT !.locks[type] = FALSE, !.timers[type] = FALSE, !.pending[type] = 0]

RECURSIVE unlockAll(_, _)
unlockAll(T, types) ==
  IF types = {} THEN T
  ELSE LET c == CHOOSE x \in types : TRUE
       IN unlockAll(unlockOperating(T, c), types \ {c})

\* the pending categories a pushed order list resolves
ResolvedBy(T, orders) ==
  {c \in Categories :
     /\ T.pending[c] # 0
     /\ LET match == {o \in orders : o.orderId = T.pending[c]}
        IN \/ match = {}
           \/ \E o \in match : o.status \notin LiveStatuses}

\* mutant: a resolved category loses its busy flag and pending id, not its timer
syncLocksWithOrders_KeepTimer(T, orders) ==
  [T EXCEPT !.locks = [c \in Categories |->
                         IF c \in ResolvedBy(T, orders) THEN FALSE ELSE T.locks[c]],
            !.pending = [c \in Categories |->
                         IF c \in ResolvedBy(T, orders) THEN 0 ELSE T.pending[c]]]

\* mutant: a busy category is released unless the list holds its pending order,
\* whether a pending id is recorded or not
syncLocksWithOrders_ByBusyFlag(T, orders) ==
  unlockAll(T, {c \in Categories :
                  /\ T.locks[c]
                  /\ ~\E o \in orders : o.orderId = T.pending[c] /\ o.status \in LiveStatuses})

syncLocksWithOrders(T, orders) == unlockAll(T, ResolvedBy(T, orders))

SetTables(T) == locks' = T.locks /\ timers' = T.timers /\ pending' = T.pending

\* history records of the lock tables: the operation, its categories, who made
\* it, the tables before a refused acquire, and for a release by a push the busy
\* categories whose pending order is younger than the push (stale)
NoLockOp == [op |-> "none", types |-> {}, by |-> "none", before |-> <<>>, stale |-> {}]

Released(types, by, stale) ==
  [op |-> "release", types |-> types, by |-> by, before |-> <<>>, stale |-> stale]

StartedAfterRelease(types) == [c \in Categories |-> IF c \in types THEN 0 ELSE started[c]]

\* ------------------------------------------------------------------------
\* The engines' common part: construction, pushes, timers, the exchange
\* ------------------------------------------------------------------------
NoFrame ==
  [ctx |-> "try", hadRateLimit |-> FALSE, position |-> NoPosition,
   bidPrice |-> 0, askPrice |-> 0, toCancel |-> {}, toPlace |-> <<>>,
   cur |-> <<>>, ret |-> "none", closeRet |-> "none", closeThrew |-> FALSE,
   exitRet |-> "none", side |-> "none", attemptAmount |-> 0, attempts |-> 0,
   entry |-> "none", risk |-> "none", close |-> "none", closeQty |-> 0,
   cancelReq |-> {}, cancelAll |-> FALSE, cancelResult |-> "none", callbacks |-> <<>>,
   reply |-> <<>>, rateLimited |-> FALSE, tolerance |-> priceChaseThreshold,
   reentered |-> FALSE, overlap |-> FALSE, stopAmt |-> 0,
   decision |-> "none", gateEmits |-> 0]

GatewayErrors == {"rateLimit", "other"}

\* isUnknownOrderError(error): "unknown" is any error whose message names an
\* unknown order
isUnknownOrderError(error) == error = "unknown"

\* history: the tick's locals once the gateway answered request req with result r
Replied(f, req, r) ==
  [f EXCEPT !.reply = <<req, r>>, !.rateLimited = @ \/ r = "rateLimit"]

\* the tick is suspended in a gateway request
Awaiting == {"awaitReset", "awaitCancel", "awaitPlace", "awaitCloseCancel", "awaitClose",
             "awaitEntry"}

\* handlers and timers run only between the tick's synchronous stretches
Yielded == pc = "idle" \/ pc \in Awaiting

\* the n resting orders a previous run left at the exchange
HistoricalOrders(n) ==
  { [orderId |-> i, side |-> "BUY", price |-> 1, reduceOnly |-> FALSE,
     status |-> "NEW", type |-> "LIMIT"] : i \in 1..n }

\* ------------------------------------------------------------------------
\* Trading statistics (pure transcriptions; amounts are whole numbers)
\* ------------------------------------------------------------------------
oneHour == 3600000

createEmptyStats(startTime) ==
  [makerOrderCount |-> 0, takerOrderCount |-> 0, totalFees |-> 0, totalPnl |-> 0,
   totalVolume |-> 0, pointsRate |-> 0, startTime |-> startTime]

createEmptyHourlyStats(startTime) ==
  [makerOrderCount |-> 0, takerOrderCount |-> 0, totalFees |-> 0, totalPnl |-> 0,
   totalVolume |-> 0, pointsRate |-> 0, startTime |-> startTime,
   hourStartTime |-> startTime]

\* calculatePointsRate with the default team bonus 1.1:
\* (fees - pnl) / (volume / 2 * 1.1) * 10000, rounded down to a whole number
calculatePointsRate(fees, pnl, volume) ==
  IF volume <= 0 THEN 0
  ELSE ((fees - pnl) * 200000) \div (volume * 11)

\* mutant: every fill is counted as a maker fill
updateStatsWithRealTrade_MakerOnly(stats, tradeData) ==
  [stats EXCEPT
     !.makerOrderCount = @ + 1,
     !.totalFees = @ + tradeData.commission,
     !.totalPnl = @ + tradeData.realizedPnl,
     !.totalVolume = @ + tradeData.volume,
     !.pointsRate = calculatePointsRate(stats.totalFees + tradeData.commission,
                                        stats.totalPnl + tradeData.realizedPnl,
                                        stats.totalVolume + tradeData.volume)]

updateStatsWithRealTrade(stats, tradeData) ==
  [stats EXCEPT
     !.makerOrderCount = IF tradeData.isMaker THEN @ + 1 ELSE @,
     !.takerOrderCount = IF tradeData.isMaker THEN @ ELSE @ + 1,
     !.totalFees = @ + tradeData.commission,
     !.totalPnl = @ + tradeData.realizedPnl,
     !.totalVolume = @ + tradeData.volume,
     !.pointsRate = calculatePointsRate(stats.totalFees + tradeData.commission,
                                        stats.totalPnl + tradeData.realizedPnl,
                                        stats.totalVolume + tradeData.volume)]

shouldResetHourlyStats(hourlyStats, t) == t - hourlyStats.hourStartTime >= oneHour

\* mutant: the reset leaves the window start as it was
resetHourlyStats_KeepsStart(hourlyStats, t) ==
  [hourlyStats EXCEPT
     !.makerOrderCount = 0, !.takerOrderCount = 0, !.totalFees = 0, !.totalPnl = 0,
     !.totalVolume = 0, !.pointsRate = 0]

\* resetHourlyStats up to its await: the hourly record after the reset
resetHourlyStats(hourlyStats, t) ==
  [hourlyStats EXCEPT
     !.makerOrderCount = 0, !.takerOrderCount = 0, !.totalFees = 0, !.totalPnl = 0,
     !.totalVolume = 0, !.pointsRate = 0, !.hourStartTime = t]

\* handleRealTrade: the TradeData built from a trade-execution event, applied to
\* the total and to the hourly statistics
handleRealTrade(stats, tradeData) ==
  LET trade == [isMaker |-> tradeData.isMaker,
                commission |-> Abs(tradeData.commission),
                realizedPnl |-> tradeData.realizedPnl,
                volume |-> tradeData.quoteQty]
  IN [total |-> updateStatsWithRealTrade(stats.total, trade),
      hourly |-> updateStatsWithRealTrade(stats.hourly, trade)]

\* the offset maker before its first pushes: null snapshots, no tick running
OffsetInit ==
  [positionAmt |-> 0, bids |-> <<>>, asks |-> <<>>, pc |-> "idle",
   exit |-> FALSE, close |-> "none", quoted |-> FALSE]

NoDelivery == [emits |-> 0, received |-> <<>>, threw |-> <<>>, escaped |-> FALSE]

NoStatsHistory == [maker |-> 0, taker |-> 0, resets |-> 0, op |-> "none"]

\* the statistics after construction at time t
StatsInit(t) ==
  /\ tradingStats = [total |-> createEmptyStats(t), hourly |-> createEmptyHourlyStats(t)]
  /\ hourlyExport = [pending |-> <<>>, written |-> <<>>]
  /\ statsHistory = NoStatsHistory
  /\ listeners = <<>>
  /\ delivery = NoDelivery
  /\ offset = OffsetInit

EngineInit ==
  /\ StatsInit(StartTime)
  /\ accountSnapshot = <<>>
  /\ depthSnapshot = <<>>
  /\ openOrders = {}
  /\ pendingCancelOrders = {}
  /\ desiredOrders = <<>>
  /\ initialOrderSnapshotReady = FALSE
  /\ initialOrderResetDone = FALSE
  /\ processing = FALSE
  /\ pc = "idle"
  /\ frame = NoFrame
  /\ locks = [c \in Categories |-> FALSE]
  /\ timers = [c \in Categories |-> FALSE]
  /\ pending = [c \in Categories |-> 0]
  /\ lockOp = NoLockOp
  /\ started = [c \in Categories |-> 0]
  /\ orderFeed = <<>>
  /\ positionSide = "none"
  /\ entryBidQty = 0
  /\ entryAskQty = 0
  /\ currentTradeAmount = depthTradeAmount
  /\ currentLossLimit = depthLossLimit * LossUnit

InitMaker ==
  /\ InitRL
  /\ EngineInit
  /\ \E n \in 0..MaxHistorical :
       /\ exOrders = HistoricalOrders(n)
       /\ nextId = n + 1

EngineAdvance ==
  /\ Yielded
  /\ now < EngineMaxTime
  /\ now' = now + 1
  /\ UNCHANGED <<rateLimit, rlHistory, engineVars, coordVars, exVars, imbVars>>
  /\ UNCHANGED <<statsVars, listenerVars, offsetVars>>

\* watchAccount handler.  tick reads the account and depth snapshots before its
\* requests only, so a snapshot that arrives later in a tick is delivered after it.
AccountPush ==
  /\ pc = "idle"
  /\ \E a \in AccountValues : accountSnapshot' = <<a>>
  /\ UNCHANGED <<rlVars, depthSnapshot, openOrders, pendingCancelOrders, desiredOrders,
                 initialOrderSnapshotReady, initialOrderResetDone, processing, pc, frame,
                 coordVars, exVars>>
  /\ UNCHANGED imbVars
  /\ UNCHANGED <<statsVars, listenerVars, offsetVars>>

\* watchDepth handler
DepthPush ==
  /\ pc = "idle"
  /\ \E d \in DepthValues : depthSnapshot' = <<d>>
  /\ UNCHANGED <<rlVars, accountSnapshot, openOrders, pendingCancelOrders, desiredOrders,
                 initialOrderSnapshotReady, initialOrderResetDone, processing, pc, frame,
                 coordVars, exVars>>
  /\ UNCHANGED imbVars
  /\ UNCHANGED <<statsVars, listenerVars, offsetVars>>

Snapshot(orders) == [orders |-> orders, upTo |-> nextId - 1]

\* the exchange publishes its resting orders
ExchangePush ==
  /\ Yielded
  /\ Len(orderFeed) < MaxFeed
  /\ orderFeed' = Append(orderFeed, Snapshot(exOrders))
  /\ UNCHANGED <<rlVars, engineVars, coordVars, exOrders, nextId>>
  /\ UNCHANGED imbVars
  /\ UNCHANGED <<statsVars, listenerVars, offsetVars>>

\* a resting order trades partly
ExchangePartialFill ==
  /\ Yielded
  /\ \E o \in exOrders :
       /\ o.status = "NEW"
       /\ exOrders' = (exOrders \ {o}) \cup {[o EXCEPT !.status = "PARTIALLY_FILLED"]}
  /\ UNCHANGED <<rlVars, engineVars, coordVars, orderFeed, nextId>>
  /\ UNCHANGED imbVars
  /\ UNCHANGED <<statsVars, listenerVars, offsetVars>>

\* a resting order trades fully; the exchange may publish it with its final status
ExchangeFill ==
  /\ Yielded
  /\ \E o \in exOrders, report \in BOOLEAN :
       /\ exOrders' = exOrders \ {o}
       /\ IF report
          THEN /\ Len(orderFeed) < MaxFeed
               /\ orderFeed' = Append(orderFeed,
                    Snapshot((exOrders \ {o}) \cup {[o EXCEPT !.status = "FILLED"]}))
          ELSE UNCHANGED orderFeed
  /\ UNCHANGED <<rlVars, engineVars, coordVars, nextId>>
  /\ UNCHANGED imbVars
  /\ UNCHANGED <<statsVars, listenerVars, offsetVars>>

\* the release timer of a category fires
TimerFires(type) ==
  /\ Yielded
  /\ timers[type]
  /\ SetTables(unlockOperating(Tables, type))
  /\ lockOp' = Released({type}, "timer", {})
  /\ started' = StartedAfterRelease({type})
  /\ UNCHANGED <<rlVars, engineVars, exVars>>
  /\ UNCHANGED imbVars
  /\ UNCHANGED <<statsVars, listenerVars, offsetVars>>

\* watchOrders handler of the maker engine
OrderPush ==
  /\ Yielded
  /\ orderFeed # <<>>
  /\ LET msg == Head(orderFeed)
         resolved == ResolvedBy(Tables, msg.orders)
         open == {o \in msg.orders : o.type # "MARKET"}
     IN /\ SetTables(syncLocksWithOrders(Tables, msg.orders))
        /\ lockOp' = IF resolved = {} THEN lockOp
                     ELSE Released(resolved, "push",
                                   {c \in resolved : locks[c] /\ pending[c] > msg.upTo})
        /\ started' = StartedAfterRelease(resolved)
        /\ openOrders' = open
        /\ pendingCancelOrders' = pendingCancelOrders \cap OrderIds(open)
  /\ initialOrderSnapshotReady' = TRUE
  /\ orderFeed' = Tail(orderFeed)
  /\ UNCHANGED <<rlVars, accountSnapshot, depthSnapshot, desiredOrders,
                 initialOrderResetDone, processing, pc, frame, exOrders, nextId>>
  /\ UNCHANGED imbVars
  /\ UNCHANGED <<statsVars, listenerVars, offsetVars>>

\* mutant: the finally-block leaves the processing flag up
TickFinally_KeepsFlag ==
  /\ pc = "finally"
  /\ rateLimit' = onCycleComplete(rateLimit, frame.hadRateLimit, now)
  /\ pc' = "idle"
  /\ frame' = NoFrame
  /\ UNCHANGED <<now, rlHistory, accountSnapshot, depthSnapshot, openOrders,
                 pendingCancelOrders, desiredOrders, initialOrderSnapshotReady,
                 initialOrderResetDone, processing, coordVars, exVars>>
  /\ UNCHANGED imbVars
  /\ UNCHANGED <<statsVars, listenerVars, offsetVars>>

\* finally-block of tick
TickFinally ==
  /\ pc = "finally"
  /\ rateLimit' = onCycleComplete(rateLimit, frame.hadRateLimit, now)
  /\ processing' = FALSE
  /\ pc' = "idle"
  /\ frame' = NoFrame
  /\ UNCHANGED <<now, rlHistory, accountSnapshot, depthSnapshot, openOrders,
                 pendingCancelOrders, desiredOrders, initialOrderSnapshotReady,
                 initialOrderResetDone, coordVars, exVars>>
  /\ UNCHANGED imbVars
  /\ UNCHANGED <<statsVars, listenerVars, offsetVars>>

\* ------------------------------------------------------------------------
\* MakerEngine.tick, cut at its awaits
\* ------------------------------------------------------------------------
tickUnchanged == <<now, rlHistory, accountSnapshot, depthSnapshot, imbVars>>

\* mutant: the gate emits a snapshot whatever beforeCycle returned
GateEmits_Always(decision, ready) == 1

\* the emitUpdate calls of the entry of tick: one when beforeCycle returns paused,
\* none when it returns skip, one when the engine is not ready
GateEmits(decision, ready) ==
  IF decision = "paused" THEN 1
  ELSE IF decision = "skip" THEN 0
  ELSE IF ~ready THEN 1 ELSE 0

\* tick entry: re-entrancy flag, beforeCycle, readiness
Tick ==
  /\ pc = "idle"
  /\ ~processing
  /\ processing' = TRUE
  /\ LET res == beforeCycle(rateLimit, now)
     IN /\ rateLimit' = res[2]
        /\ frame' = [NoFrame EXCEPT !.decision = res[1],
                                    !.gateEmits = GateEmits(res[1], isReady)]
        /\ pc' = IF res[1] = "run" /\ isReady THEN "startup" ELSE "finally"
  /\ UNCHANGED <<tickUnchanged, openOrders, pendingCancelOrders, desiredOrders,
                 initialOrderSnapshotReady, initialOrderResetDone, coordVars, exVars>>
  /\ UNCHANGED <<statsVars, listenerVars, offsetVars>>

ensureStartupOrderReset ==
  /\ pc = "startup"
  /\ IF initialOrderResetDone THEN pc' = "compute" /\ UNCHANGED initialOrderResetDone
     ELSE IF ~initialOrderSnapshotReady THEN pc' = "finally" /\ UNCHANGED initialOrderResetDone
     ELSE IF openOrders = {} THEN pc' = "compute" /\ initialOrderResetDone' = TRUE
     ELSE pc' = "awaitReset" /\ UNCHANGED initialOrderResetDone
  /\ UNCHANGED <<tickUnchanged, rateLimit, openOrders, pendingCancelOrders, desiredOrders,
                 initialOrderSnapshotReady, processing, frame, coordVars, exVars>>
  /\ UNCHANGED <<statsVars, listenerVars, offsetVars>>

\* cancelAllOrders of ensureStartupOrderReset returns
StartupResetResponse ==
  /\ pc = "awaitReset"
  /\ \E r \in {"ok", "unknown"} \cup GatewayErrors :
       /\ frame' = Replied(frame, "cancelAll", r)
       /\ \/ /\ r = "ok"
             /\ exOrders' = {}
             /\ pendingCancelOrders' = {}
             /\ SetTables(unlockOperating(Tables, "LIMIT"))
             /\ lockOp' = Released({"LIMIT"}, "startup", {})
             /\ started' = StartedAfterRelease({"LIMIT"})
             /\ openOrders' = {}
             /\ initialOrderResetDone' = TRUE
             /\ pc' = "compute"
          \/ /\ isUnknownOrderError(r)
             /\ exOrders = {}
             /\ initialOrderResetDone' = TRUE
             /\ openOrders' = {}
             /\ pc' = "compute"
             /\ UNCHANGED <<exOrders, pendingCancelOrders, coordVars>>
          \/ /\ r \in GatewayErrors
             /\ pc' = "finally"
             /\ UNCHANGED <<exOrders, pendingCancelOrders, coordVars, openOrders,
                            initialOrderResetDone>>
  /\ UNCHANGED <<tickUnchanged, rateLimit, desiredOrders, initialOrderSnapshotReady,
                 processing, orderFeed, nextId>>
  /\ UNCHANGED <<statsVars, listenerVars, offsetVars>>

Quote(side, price, amount, reduceOnly) ==
  [side |-> side, price |-> price, amount |-> amount, reduceOnly |-> reduceOnly]

\* mutant: a flat engine quotes both sides even when entries are blocked
DesiredQuotes_IgnoresBlock(position, bidPrice, askPrice, canEnter) ==
  IF Abs(position.positionAmt) < EPS
  THEN <<Quote("BUY", bidPrice, tradeAmount, FALSE),
         Quote("SELL", askPrice, tradeAmount, FALSE)>>
  ELSE IF position.positionAmt > 0
       THEN <<Quote("SELL", askPrice, Abs(position.positionAmt), TRUE)>>
       ELSE <<Quote("BUY", bidPrice, Abs(position.positionAmt), TRUE)>>

\* the quotes of a tick (desired)
DesiredQuotes(position, bidPrice, askPrice, canEnter) ==
  IF Abs(position.positionAmt) < EPS
  THEN IF canEnter
       THEN <<Quote("BUY", bidPrice, tradeAmount, FALSE),
              Quote("SELL", askPrice, tradeAmount, FALSE)>>
       ELSE <<>>
  ELSE IF position.positionAmt > 0
       THEN <<Quote("SELL", askPrice, Abs(position.positionAmt), TRUE)>>
       ELSE <<Quote("BUY", bidPrice, Abs(position.positionAmt), TRUE)>>

\* mutant: syncOrders starts with its placement loop
ComputeDesired_PlaceFirst ==
  /\ pc = "compute"
  /\ LET top == getTopPrices(depthSnapshot)
         bidPrice == roundDownToTick(top.topBid - bidOffset, priceTick)
         askPrice == roundDownToTick(top.topAsk + askOffset, priceTick)
         position == getPosition(accountSnapshot)
         canEnter == ~shouldBlockEntries(rateLimit)
         desired == DesiredQuotes(position, bidPrice, askPrice, canEnter)
         availableOrders == {o \in openOrders : o.orderId \notin pendingCancelOrders}
         plan == makeOrderPlan(availableOrders, desired, priceChaseThreshold)
     IN IF top.topBid = 0 \/ top.topAsk = 0
        THEN pc' = "finally" /\ UNCHANGED <<desiredOrders, frame>>
        ELSE /\ desiredOrders' = desired
             /\ frame' = [frame EXCEPT !.position = position, !.bidPrice = bidPrice,
                                       !.askPrice = askPrice, !.toCancel = plan.toCancel,
                                       !.toPlace = plan.toPlace, !.ret = "place"]
             /\ pc' = "placeNext"
  /\ UNCHANGED <<tickUnchanged, rateLimit, openOrders, pendingCancelOrders,
                 initialOrderSnapshotReady, initialOrderResetDone, processing,
                 coordVars, exVars>>
  /\ UNCHANGED <<statsVars, listenerVars, offsetVars>>

\* top of book, quotes, and the plan of syncOrders
ComputeDesired ==
  /\ pc = "compute"
  /\ LET top == getTopPrices(depthSnapshot)
         bidPrice == roundDownToTick(top.topBid - bidOffset, priceTick)
         askPrice == roundDownToTick(top.topAsk + askOffset, priceTick)
         position == getPosition(accountSnapshot)
         canEnter == ~shouldBlockEntries(rateLimit)
         desired == DesiredQuotes(position, bidPrice, askPrice, canEnter)
         availableOrders == {o \in openOrders : o.orderId \notin pendingCancelOrders}
         plan == makeOrderPlan(availableOrders, desired, priceChaseThreshold)
     IN IF top.topBid = 0 \/ top.topAsk = 0
        THEN pc' = "finally" /\ UNCHANGED <<desiredOrders, frame>>
        ELSE /\ desiredOrders' = desired
             /\ frame' = [frame EXCEPT !.position = position, !.bidPrice = bidPrice,
                                       !.askPrice = askPrice, !.toCancel = plan.toCancel,
                                       !.toPlace = plan.toPlace, !.ret = "place"]
             /\ pc' = "cancelNext"
  /\ UNCHANGED <<tickUnchanged, rateLimit, openOrders, pendingCancelOrders,
                 initialOrderSnapshotReady, initialOrderResetDone, processing,
                 coordVars, exVars>>
  /\ UNCHANGED <<statsVars, listenerVars, offsetVars>>

\* an error escapes the body of tick and reaches its catch-block
TickCatch ==
  /\ pc = "compute"
  /\ \E error \in GatewayErrors :
       IF error = "rateLimit"
       THEN LET position == getPosition(accountSnapshot)
                top == getTopPrices(depthSnapshot)
            IN /\ rateLimit' = registerRateLimit(rateLimit, now)
               /\ IF Abs(position.positionAmt) < EPS \/ top.topBid = 0 \/ top.topAsk = 0
                  THEN /\ frame' = [frame EXCEPT !.hadRateLimit = TRUE, !.ctx = "catch",
                                                 !.stopAmt = position.positionAmt]
                       /\ pc' = "finally"
                  ELSE /\ frame' = [frame EXCEPT
                            !.hadRateLimit = TRUE, !.ctx = "catch",
                            !.position = position, !.stopAmt = position.positionAmt,
                            !.bidPrice = roundDownToTick(top.topBid - bidOffset, priceTick),
                            !.askPrice = roundDownToTick(top.topAsk + askOffset, priceTick)]
                       /\ pc' = "risk"
       ELSE /\ pc' = "finally"
            /\ UNCHANGED <<rateLimit, frame>>
  /\ UNCHANGED <<tickUnchanged, openOrders, pendingCancelOrders, desiredOrders,
                 initialOrderSnapshotReady, initialOrderResetDone, processing,
                 coordVars, exVars>>
  /\ UNCHANGED <<statsVars, listenerVars, offsetVars>>

\* where a finished cancel loop continues
AfterCancels == IF frame.ret = "place" THEN "placeNext"
                ELSE IF frame.ret = "close" THEN "close"
                ELSE "finally"

\* mutant: the cancel loops do not look at pendingCancelOrders
CancelNext_NoPendingCheck ==
  /\ pc = "cancelNext"
  /\ IF frame.toCancel = {}
     THEN /\ pc' = AfterCancels
          /\ frame' = [frame EXCEPT !.cancelResult = "none", !.callbacks = <<>>]
          /\ UNCHANGED pendingCancelOrders
     ELSE LET order == MinId(frame.toCancel)
          IN IF FALSE
             THEN /\ frame' = [frame EXCEPT !.toCancel = @ \ {order},
                                            !.cancelReq = @ \cup {order.orderId},
                                            !.cancelResult = "none", !.callbacks = <<>>]
                  /\ pc' = "cancelNext"
                  /\ UNCHANGED pendingCancelOrders
             ELSE /\ frame' = [frame EXCEPT !.toCancel = @ \ {order}, !.cur = <<order>>,
                                            !.cancelReq = @ \cup {order.orderId},
                                            !.cancelResult = "none", !.callbacks = <<>>]
                  /\ pendingCancelOrders' = pendingCancelOrders \cup {order.orderId}
                  /\ pc' = "awaitCancel"
  /\ UNCHANGED <<tickUnchanged, rateLimit, openOrders, desiredOrders,
                 initialOrderSnapshotReady, initialOrderResetDone, processing,
                 coordVars, exVars>>
  /\ UNCHANGED <<statsVars, listenerVars, offsetVars>>

\* head of the cancel loops of syncOrders and flushOrders
CancelNext ==
  /\ pc = "cancelNext"
  /\ IF frame.toCancel = {}
     THEN /\ pc' = AfterCancels
          /\ frame' = [frame EXCEPT !.cancelResult = "none", !.callbacks = <<>>]
          /\ UNCHANGED pendingCancelOrders
     ELSE LET order == MinId(frame.toCancel)
          IN IF order.orderId \in pendingCancelOrders
             THEN /\ frame' = [frame EXCEPT !.toCancel = @ \ {order},
                                            !.cancelReq = @ \cup {order.orderId},
                                            !.cancelResult = "none", !.callbacks = <<>>]
                  /\ pc' = "cancelNext"
                  /\ UNCHANGED pendingCancelOrders
             ELSE /\ frame' = [frame EXCEPT !.toCancel = @ \ {order}, !.cur = <<order>>,
                                            !.cancelReq = @ \cup {order.orderId},
                                            !.cancelResult = "none", !.callbacks = <<>>]
                  /\ pendingCancelOrders' = pendingCancelOrders \cup {order.orderId}
                  /\ pc' = "awaitCancel"
  /\ UNCHANGED <<tickUnchanged, rateLimit, openOrders, desiredOrders,
                 initialOrderSnapshotReady, initialOrderResetDone, processing,
                 coordVars, exVars>>
  /\ UNCHANGED <<statsVars, listenerVars, offsetVars>>

\* mutant: an unknown order is reported as already gone and as an error
safeCancelOrder_TwoCallbacks(result) ==
  IF result = "ok" THEN <<"onSuccess">>
  ELSE IF isUnknownOrderError(result) THEN <<"onAlreadyGone", "onError">>
  ELSE <<"onError">>

\* safeCancelOrder: the callbacks it invokes, in order, for a result of the cancel
safeCancelOrder(result) ==
  IF result = "ok" THEN <<"onSuccess">>
  ELSE IF isUnknownOrderError(result) THEN <<"onAlreadyGone">>
  ELSE <<"onError">>

\* mutant: onAlreadyGone keeps the order
Forgets_OnErrorOnly(callbacks) ==
  \E i \in 1..Len(callbacks) : callbacks[i] = "onError"

\* the callbacks syncOrders and flushOrders hand to safeCancelOrder: onSuccess
\* logs; onAlreadyGone and onError drop the order from pendingCancelOrders and
\* from the cache
Forgets(callbacks) ==
  \E i \in 1..Len(callbacks) : callbacks[i] \in {"onAlreadyGone", "onError"}

\* safeCancelOrder returns: success, unknown order, or another error
CancelResponse ==
  /\ pc = "awaitCancel"
  /\ LET order == frame.cur[1]
         live == {o \in exOrders : o.orderId = order.orderId}
     IN \E r \in {"ok", "unknown"} \cup GatewayErrors :
          /\ \/ /\ r = "ok"
                /\ live # {}
                /\ exOrders' = exOrders \ live
             \/ /\ r = "unknown"
                /\ live = {}
                /\ UNCHANGED exOrders
             \/ /\ r \in GatewayErrors
                /\ UNCHANGED exOrders
          /\ IF Forgets(safeCancelOrder(r))
             THEN /\ pendingCancelOrders' = pendingCancelOrders \ {order.orderId}
                  /\ openOrders' = {o \in openOrders : o.orderId # order.orderId}
             ELSE UNCHANGED <<pendingCancelOrders, openOrders>>
          /\ frame' = [Replied(frame, "cancel", r) EXCEPT
                         !.cur = <<>>, !.cancelResult = r,
                         !.callbacks = safeCancelOrder(r)]
  /\ pc' = "cancelNext"
  /\ UNCHANGED <<tickUnchanged, rateLimit, desiredOrders, initialOrderSnapshotReady,
                 initialOrderResetDone, processing, coordVars, orderFeed, nextId>>
  /\ UNCHANGED <<statsVars, listenerVars, offsetVars>>

LockBusy(type, by) ==
  [op |-> "busy", types |-> {type}, by |-> by, before |-> <<Tables>>, stale |-> {}]

LockAcquired(type, by) ==
  [op |-> "acquire", types |-> {type}, by |-> by, before |-> <<>>, stale |-> {}]

PendingRecorded(type, by) ==
  [op |-> "pending", types |-> {type}, by |-> by, before |-> <<>>, stale |-> {}]

\* acquire(category) of the coordinator: fails when held, else locks and counts the start
Acquire(type, by) ==
  IF isOperating(Tables, type)
  THEN /\ lockOp' = LockBusy(type, by)
       /\ UNCHANGED <<locks, timers, pending, started>>
  ELSE /\ SetTables(lockOperating(Tables, type))
       /\ lockOp' = LockAcquired(type, by)
       /\ started' = [started EXCEPT ![type] = @ + 1]

\* release(category) after a failed request
ReleaseRejected(type) ==
  /\ SetTables(unlockOperating(Tables, type))
  /\ lockOp' = Released({type}, "reject", {})
  /\ started' = StartedAfterRelease({type})

\* the returned order id becomes the category's pending id
RecordPending(type, id, by) ==
  /\ pending' = [pending EXCEPT ![type] = id]
  /\ lockOp' = PendingRecorded(type, by)
  /\ UNCHANGED <<locks, timers, started>>

\* history: a position-opening order is submitted; was the controller blocking entries?
EntryMark == IF shouldBlockEntries(rateLimit) THEN "blocked" ELSE "allowed"

\* head of the placement loop of syncOrders: placeOrder up to its create request
PlaceNext ==
  /\ pc = "placeNext"
  /\ IF frame.toPlace = <<>>
     THEN pc' = "risk" /\ UNCHANGED <<frame, coordVars>>
     ELSE LET target == Head(frame.toPlace)
          IN IF target.amount < EPS
             THEN /\ frame' = [frame EXCEPT !.toPlace = Tail(@)]
                  /\ pc' = "placeNext"
                  /\ UNCHANGED coordVars
             ELSE /\ Acquire("LIMIT", "placeOrder")
                  /\ IF isOperating(Tables, "LIMIT")
                     THEN /\ frame' = [frame EXCEPT !.toPlace = Tail(@)]
                          /\ pc' = "placeNext"
                     ELSE /\ frame' = [frame EXCEPT !.toPlace = Tail(@), !.cur = <<target>>,
                                                    !.entry = IF target.reduceOnly THEN @
                                                              ELSE EntryMark]
                          /\ pc' = "awaitPlace"
  /\ UNCHANGED <<tickUnchanged, rateLimit, openOrders, pendingCancelOrders, desiredOrders,
                 initialOrderSnapshotReady, initialOrderResetDone, processing, exVars>>
  /\ UNCHANGED <<statsVars, listenerVars, offsetVars>>

LimitOrder(id, target) ==
  [orderId |-> id, side |-> target.side, price |-> target.price,
   reduceOnly |-> target.reduceOnly, status |-> "NEW", type |-> "LIMIT"]

\* the create request of placeOrder returns; the exchange hands out order ids up
\* to lastId
PlaceResponseWithin(lastId) ==
  /\ pc = "awaitPlace"
  /\ \E r \in {"ok"} \cup GatewayErrors :
       /\ \/ /\ r = "ok"
             /\ nextId <= lastId
             /\ exOrders' = exOrders \cup {LimitOrder(nextId, frame.cur[1])}
             /\ nextId' = nextId + 1
             /\ RecordPending("LIMIT", nextId, "placeOrder")
          \/ /\ r \in GatewayErrors
             /\ ReleaseRejected("LIMIT")
             /\ UNCHANGED <<exOrders, nextId>>
       /\ frame' = [Replied(frame, "create", r) EXCEPT !.cur = <<>>]
  /\ pc' = "placeNext"
  /\ UNCHANGED <<tickUnchanged, rateLimit, openOrders, pendingCancelOrders, desiredOrders,
                 initialOrderSnapshotReady, initialOrderResetDone, processing, orderFeed>>
  /\ UNCHANGED <<statsVars, listenerVars, offsetVars>>

\* where the tick goes once checkRisk is over
PlaceResponse == PlaceResponseWithin(MaxOrders)

AfterRisk == IF frame.ctx = "try" THEN "finally" ELSE "flush"

checkRisk ==
  /\ pc = "risk"
  /\ LET position == frame.position
         hasEntryPrice == Abs(position.entryPrice) > 0
         triggerStop == shouldStopLoss(position, frame.bidPrice, frame.askPrice, lossLimit)
     IN IF Abs(position.positionAmt) >= EPS /\ hasEntryPrice /\ triggerStop
        THEN pc' = "flush" /\ frame' = [frame EXCEPT !.ret = "close", !.closeRet = AfterRisk,
                                                     !.risk = "close"]
        ELSE pc' = AfterRisk
             /\ frame' = [frame EXCEPT !.ret = "finally",
                                       !.risk = IF Abs(position.positionAmt) >= EPS
                                                   /\ hasEntryPrice
                                                THEN "evaluated" ELSE @]
  /\ UNCHANGED <<tickUnchanged, rateLimit, openOrders, pendingCancelOrders, desiredOrders,
                 initialOrderSnapshotReady, initialOrderResetDone, processing,
                 coordVars, exVars>>
  /\ UNCHANGED <<statsVars, listenerVars, offsetVars>>

\* flushOrders: iterates the order list it finds on entry
flushOrders ==
  /\ pc = "flush"
  /\ IF openOrders = {}
     THEN pc' = AfterCancels /\ UNCHANGED frame
     ELSE pc' = "cancelNext" /\ frame' = [frame EXCEPT !.toCancel = openOrders]
  /\ UNCHANGED <<tickUnchanged, rateLimit, openOrders, pendingCancelOrders, desiredOrders,
                 initialOrderSnapshotReady, initialOrderResetDone, processing,
                 coordVars, exVars>>
  /\ UNCHANGED <<statsVars, listenerVars, offsetVars>>

\* mutant: the guard lets every close through
GuardRejects_Never(markPrice, expectedPrice, maxPct) == FALSE

\* the close is refused when the expected price is too far from the mark price
GuardRejects(markPrice, expectedPrice, maxPct) ==
  /\ markPrice > 0
  /\ expectedPrice > 0
  /\ Abs(expectedPrice - markPrice) * 100 > maxPct * markPrice

\* marketClose up to its first request
marketClose ==
  /\ pc = "close"
  /\ LET position == frame.position
         expectedPrice == IF position.positionAmt > 0 THEN frame.bidPrice ELSE frame.askPrice
     IN IF GuardRejects(position.markPrice, expectedPrice, maxCloseSlippagePct)
        THEN /\ pc' = frame.closeRet
             /\ frame' = [frame EXCEPT !.ret = "finally", !.closeThrew = FALSE,
                                       !.close = "rejected"]
             /\ UNCHANGED coordVars
        ELSE /\ Acquire("MARKET_CLOSE", "marketClose")
             /\ IF isOperating(Tables, "MARKET_CLOSE")
                THEN /\ pc' = frame.closeRet
                     /\ frame' = [frame EXCEPT !.ret = "finally", !.closeThrew = FALSE,
                                               !.close = "busy"]
                ELSE /\ pc' = IF openOrders # {} THEN "awaitCloseCancel" ELSE "awaitClose"
                     /\ frame' = [frame EXCEPT !.close = "requested",
                                               !.closeQty = Abs(position.positionAmt),
                                               !.cancelAll = openOrders # {}]
  /\ UNCHANGED <<tickUnchanged, rateLimit, openOrders, pendingCancelOrders, desiredOrders,
                 initialOrderSnapshotReady, initialOrderResetDone, processing, exVars>>
  /\ UNCHANGED <<statsVars, listenerVars, offsetVars>>

\* marketClose: the cancel of the resting orders returns
CloseCancelResponse ==
  /\ pc = "awaitCloseCancel"
  /\ \E r \in {"ok", "unknown"} \cup GatewayErrors :
       \/ /\ r = "ok"
          /\ exOrders' = {}
          /\ pc' = "awaitClose"
          /\ frame' = Replied(frame, "close", r)
          /\ UNCHANGED coordVars
       \/ /\ r \in GatewayErrors \/ (isUnknownOrderError(r) /\ exOrders = {})
          /\ ReleaseRejected("MARKET_CLOSE")
          /\ pc' = frame.closeRet
          /\ frame' = [Replied(frame, "close", r) EXCEPT !.ret = "finally",
                                                        !.closeThrew = TRUE]
          /\ UNCHANGED exOrders
  /\ UNCHANGED <<tickUnchanged, rateLimit, openOrders, pendingCancelOrders, desiredOrders,
                 initialOrderSnapshotReady, initialOrderResetDone, processing,
                 orderFeed, nextId>>
  /\ UNCHANGED <<statsVars, listenerVars, offsetVars>>

MarketOrder(id, position) ==
  [orderId |-> id, side |-> IF position.positionAmt > 0 THEN "SELL" ELSE "BUY",
   price |-> 0, reduceOnly |-> TRUE, status |-> "FILLED", type |-> "MARKET"]

\* marketClose: the reduce-only market order returns; it trades at once and the
\* exchange may publish it
CloseResponse ==
  /\ pc = "awaitClose"
  /\ \E r \in {"ok"} \cup GatewayErrors, report \in BOOLEAN :
       \/ /\ r = "ok"
          /\ nextId <= MaxOrders
          /\ nextId' = nextId + 1
          /\ RecordPending("MARKET_CLOSE", nextId, "marketClose")
          /\ frame' = [Replied(frame, "close", r) EXCEPT !.ret = "finally",
                                                        !.closeThrew = FALSE]
          /\ IF report
             THEN /\ Len(orderFeed) < MaxFeed
                  /\ orderFeed' = Append(orderFeed,
                       [orders |-> exOrders \cup {MarketOrder(nextId, frame.position)},
                        upTo |-> nextId])
             ELSE UNCHANGED orderFeed
       \/ /\ r \in GatewayErrors
          /\ ~report
          /\ ReleaseRejected("MARKET_CLOSE")
          /\ frame' = [Replied(frame, "close", r) EXCEPT !.ret = "finally",
                                                        !.closeThrew = TRUE]
          /\ UNCHANGED <<orderFeed, nextId>>
  /\ pc' = frame.closeRet
  /\ UNCHANGED <<tickUnchanged, rateLimit, openOrders, pendingCancelOrders, desiredOrders,
                 initialOrderSnapshotReady, initialOrderResetDone, processing, exOrders>>
  /\ UNCHANGED <<statsVars, listenerVars, offsetVars>>

NextMaker ==
  \/ EngineAdvance
  \/ AccountPush
  \/ DepthPush
  \/ ExchangePush
  \/ ExchangePartialFill
  \/ ExchangeFill
  \/ OrderPush
  \/ \E type \in Categories : TimerFires(type)
  \/ Tick
  \/ ensureStartupOrderReset
  \/ StartupResetResponse
  \/ ComputeDesired
  \/ TickCatch
  \/ CancelNext
  \/ CancelResponse
  \/ PlaceNext
  \/ PlaceResponse
  \/ checkRisk
  \/ flushOrders
  \/ marketClose
  \/ CloseCancelResponse
  \/ CloseResponse
  \/ TickFinally

\* ------------------------------------------------------------------------
\* syncOrders after the first placement of a run: the engine holds a long
\* position, its first tick has placed the closing quote, which rests at the
\* exchange and has not been pushed back yet
\* ------------------------------------------------------------------------
FirstQuote == Quote("SELL", 3, 1, TRUE)

InitSync ==
  /\ now = StartTime
  /\ rateLimit = [RateLimitInit EXCEPT !.lastCycleAt = StartTime]
  /\ rlOp = NoOp
  /\ lastRunAt = 0
  /\ lastStampAt = 0
  /\ lastOverloadAt = 0
  /\ StatsInit(StartTime)
  /\ accountSnapshot = <<[positionAmt |-> 1, entryPrice |-> 2, markPrice |-> 1]>>
  /\ depthSnapshot = <<[bid |-> 2, ask |-> 3, bidQty |-> 1, askQty |-> 1]>>
  /\ openOrders = {}
  /\ pendingCancelOrders = {}
  /\ desiredOrders = <<FirstQuote>>
  /\ initialOrderSnapshotReady = TRUE
  /\ initialOrderResetDone = TRUE
  /\ processing = FALSE
  /\ pc = "idle"
  /\ frame = NoFrame
  /\ locks = [c \in Categories |-> c = "LIMIT"]
  /\ timers = [c \in Categories |-> c = "LIMIT"]
  /\ pending = [c \in Categories |-> IF c = "LIMIT" THEN 1 ELSE 0]
  /\ lockOp = PendingRecorded("LIMIT", "placeOrder")
  /\ started = [c \in Categories |-> IF c = "LIMIT" THEN 1 ELSE 0]
  /\ orderFeed = <<>>
  /\ positionSide = "none"
  /\ entryBidQty = 0
  /\ entryAskQty = 0
  /\ currentTradeAmount = depthTradeAmount
  /\ currentLossLimit = depthLossLimit * LossUnit
  /\ exOrders = {LimitOrder(1, FirstQuote)}
  /\ nextId = 2

SyncPlaceResponse == PlaceResponseWithin(MaxOrders + 1)

NextSync ==
  \/ EngineAdvance
  \/ DepthPush
  \/ ExchangePush
  \/ OrderPush
  \/ \E type \in Categories : TimerFires(type)
  \/ Tick
  \/ ensureStartupOrderReset
  \/ ComputeDesired
  \/ TickCatch
  \/ CancelNext
  \/ CancelResponse
  \/ PlaceNext
  \/ SyncPlaceResponse
  \/ checkRisk
  \/ flushOrders
  \/ marketClose
  \/ CloseCancelResponse
  \/ CloseResponse
  \/ TickFinally

\* ------------------------------------------------------------------------
\* The maker engine some time into a run: the startup reset is done and no order
\* rests; either the controller is untouched, or the tick at StartTime ended in
\* a rate-limit error and the degraded interval has passed since
\* ------------------------------------------------------------------------
DegradedSince(t) == registerRateLimit(beforeCycle(RateLimitInit, t)[2], t)

InitDesired ==
  /\ \/ now = StartTime /\ rateLimit = RateLimitInit
     \/ now = StartTime + 2 * baseInterval /\ rateLimit = DegradedSince(StartTime)
  /\ rlOp = NoOp
  /\ lastRunAt = 0
  /\ lastStampAt = 0
  /\ lastOverloadAt = 0
  /\ StatsInit(StartTime)
  /\ accountSnapshot = <<>>
  /\ depthSnapshot = <<>>
  /\ openOrders = {}
  /\ pendingCancelOrders = {}
  /\ desiredOrders = <<>>
  /\ initialOrderSnapshotReady = TRUE
  /\ initialOrderResetDone = TRUE
  /\ processing = FALSE
  /\ pc = "idle"
  /\ frame = NoFrame
  /\ locks = [c \in Categories |-> FALSE]
  /\ timers = [c \in Categories |-> FALSE]
  /\ pending = [c \in Categories |-> 0]
  /\ lockOp = NoLockOp
  /\ started = [c \in Categories |-> 0]
  /\ orderFeed = <<>>
  /\ positionSide = "none"
  /\ entryBidQty = 0
  /\ entryAskQty = 0
  /\ currentTradeAmount = depthTradeAmount
  /\ currentLossLimit = depthLossLimit * LossUnit
  /\ exOrders = {}
  /\ nextId = 1

NextDesired ==
  \/ EngineAdvance
  \/ AccountPush
  \/ DepthPush
  \/ ExchangePush
  \/ OrderPush
  \/ \E type \in Categories : TimerFires(type)
  \/ Tick
  \/ ensureStartupOrderReset
  \/ ComputeDesired
  \/ TickCatch
  \/ CancelNext
  \/ CancelResponse
  \/ PlaceNext
  \/ PlaceResponse
  \/ checkRisk
  \/ flushOrders
  \/ marketClose
  \/ CloseCancelResponse
  \/ CloseResponse
  \/ TickFinally

\* ------------------------------------------------------------------------
\* DepthImbalanceEngine.tick, cut at its awaits
\* ------------------------------------------------------------------------
\* the books pushed to the depth-imbalance engine: first-level quantities vary
ImbalanceDepthValues ==
  { [bid |-> 0, ask |-> 0, bidQty |-> 0, askQty |-> 0],
    [bid |-> 1, ask |-> 2, bidQty |-> 0, askQty |-> 6],
    [bid |-> 1, ask |-> 2, bidQty |-> 6, askQty |-> 1],
    [bid |-> 1, ask |-> 2, bidQty |-> 1, askQty |-> 6],
    [bid |-> 1, ask |-> 2, bidQty |-> 1, askQty |-> 1] }

InitImbalance ==
  /\ InitRL
  /\ EngineInit
  /\ \E n \in 0..MaxHistorical :
       /\ exOrders = HistoricalOrders(n)
       /\ nextId = n + 1

ImbalanceAdvance ==
  /\ Yielded
  /\ now < ImbalanceMaxTime
  /\ now' = now + 1
  /\ UNCHANGED <<rateLimit, rlHistory, engineVars, coordVars, exVars, imbVars>>
  /\ UNCHANGED <<statsVars, listenerVars, offsetVars>>

\* watchDepth handler
ImbalanceDepthPush ==
  /\ pc = "idle"
  /\ \E d \in ImbalanceDepthValues : depthSnapshot' = <<d>>
  /\ UNCHANGED <<rlVars, accountSnapshot, openOrders, pendingCancelOrders, desiredOrders,
                 initialOrderSnapshotReady, initialOrderResetDone, processing, pc, frame,
                 coordVars, exVars, imbVars>>
  /\ UNCHANGED <<statsVars, listenerVars, offsetVars>>

\* watchOrders handler of the depth-imbalance engine: the cache only
ImbalanceOrderPush ==
  /\ Yielded
  /\ orderFeed # <<>>
  /\ openOrders' = {o \in Head(orderFeed).orders : o.type # "MARKET"}
  /\ orderFeed' = Tail(orderFeed)
  /\ UNCHANGED <<rlVars, accountSnapshot, depthSnapshot, pendingCancelOrders, desiredOrders,
                 initialOrderSnapshotReady, initialOrderResetDone, processing, pc, frame,
                 coordVars, exOrders, nextId, imbVars>>
  /\ UNCHANGED <<statsVars, listenerVars, offsetVars>>

imbalanceUnchanged == <<now, rlHistory, accountSnapshot, depthSnapshot, openOrders,
                        pendingCancelOrders, desiredOrders, initialOrderSnapshotReady,
                        initialOrderResetDone, processing>>

\* mutant: the tick does not raise its re-entrancy flag
ImbalanceTick_FlagNotSet ==
  /\ pc = "idle"
  /\ ~processing
  /\ processing' = FALSE
  /\ LET res == beforeCycle(rateLimit, now)
     IN /\ rateLimit' = res[2]
        /\ frame' = [NoFrame EXCEPT !.decision = res[1],
                                    !.gateEmits = GateEmits(res[1], isReady)]
        /\ pc' = IF res[1] = "run" /\ isReady THEN "evaluate" ELSE "finally"
  /\ UNCHANGED <<now, rlHistory, accountSnapshot, depthSnapshot, openOrders,
                 pendingCancelOrders, desiredOrders, initialOrderSnapshotReady,
                 initialOrderResetDone, coordVars, exVars, imbVars>>
  /\ UNCHANGED <<statsVars, listenerVars, offsetVars>>

\* tick entry: re-entrancy flag, beforeCycle, readiness
ImbalanceTick ==
  /\ pc = "idle"
  /\ ~processing
  /\ processing' = TRUE
  /\ LET res == beforeCycle(rateLimit, now)
     IN /\ rateLimit' = res[2]
        /\ frame' = [NoFrame EXCEPT !.decision = res[1],
                                    !.gateEmits = GateEmits(res[1], isReady)]
        /\ pc' = IF res[1] = "run" /\ isReady THEN "evaluate" ELSE "finally"
  /\ UNCHANGED <<now, rlHistory, accountSnapshot, depthSnapshot, openOrders,
                 pendingCancelOrders, desiredOrders, initialOrderSnapshotReady,
                 initialOrderResetDone, coordVars, exVars, imbVars>>
  /\ UNCHANGED <<statsVars, listenerVars, offsetVars>>

\* the timer invokes tick while the previous tick awaits a request: with the flag
\* up it returns at once (recorded in reentered); with the flag down a second
\* tick body would start on beforeCycle (recorded in overlap)
TickReentered ==
  /\ pc \in Awaiting
  /\ ~frame.reentered
  /\ IF processing
     THEN /\ frame' = [frame EXCEPT !.reentered = TRUE]
          /\ UNCHANGED rateLimit
     ELSE /\ frame' = [frame EXCEPT !.overlap = TRUE]
          /\ rateLimit' = beforeCycle(rateLimit, now)[2]
  /\ UNCHANGED <<imbalanceUnchanged, pc, coordVars, exVars, imbVars>>
  /\ UNCHANGED <<statsVars, listenerVars, offsetVars>>

\* checkEntryCondition: some depth, and one side imbalanceRatio times the other
\* mutant: both sides must reach the minimum depth
EntrySignal_BothSides(bidQty, askQty) ==
  /\ bidQty >= minDepthQty /\ askQty >= minDepthQty
  /\ ~(IF bidQty > askQty THEN bidQty < imbalanceRatio * askQty
                          ELSE askQty < imbalanceRatio * bidQty)

EntrySignal(bidQty, askQty) ==
  /\ ~(bidQty < minDepthQty /\ askQty < minDepthQty)
  /\ ~(IF bidQty > askQty THEN bidQty < imbalanceRatio * askQty
                          ELSE askQty < imbalanceRatio * bidQty)

\* checkExitCondition: the book is back within closeBalanceRatio
ExitSignal(side, bidQty, askQty) ==
  IF side = "LONG" THEN askQty * 100 >= bidQty * closeBalanceRatio
  ELSE IF side = "SHORT" THEN bidQty * 100 >= askQty * closeBalanceRatio
  ELSE FALSE

\* tick from the top of book to checkEntryCondition / checkExitCondition
Evaluate ==
  /\ pc = "evaluate"
  /\ LET top == getTopPrices(depthSnapshot)
         bidQty == depthSnapshot[1].bidQty
         askQty == depthSnapshot[1].askQty
         position == getPosition(accountSnapshot)
         locals == [frame EXCEPT !.position = position, !.bidPrice = top.topBid,
                                 !.askPrice = top.topAsk]
         inferred == IF positionSide = "none"
                     THEN (IF position.positionAmt > 0 THEN "LONG" ELSE "SHORT")
                     ELSE positionSide
     IN IF top.topBid = 0 \/ top.topAsk = 0 \/ bidQty <= 0 \/ askQty <= 0
        THEN pc' = "finally" /\ UNCHANGED <<frame, imbVars>>
        ELSE IF Abs(position.positionAmt) < EPS
        THEN IF EntrySignal(bidQty, askQty)
             THEN /\ entryBidQty' = bidQty
                  /\ entryAskQty' = askQty
                  /\ positionSide' = IF bidQty > askQty THEN "LONG" ELSE "SHORT"
                  /\ frame' = [locals EXCEPT !.side = IF bidQty > askQty THEN "BUY" ELSE "SELL",
                                             !.attemptAmount = currentTradeAmount,
                                             !.attempts = 0]
                  /\ pc' = "entry"
                  /\ UNCHANGED <<currentTradeAmount, currentLossLimit>>
             ELSE /\ frame' = locals
                  /\ pc' = "stopLoss"
                  /\ UNCHANGED imbVars
        ELSE /\ positionSide' = inferred
             /\ IF ExitSignal(inferred, bidQty, askQty)
                THEN /\ frame' = [locals EXCEPT !.closeRet = "afterExit", !.exitRet = "stopLoss",
                                                !.risk = "close"]
                     /\ pc' = "close"
                ELSE /\ frame' = [locals EXCEPT !.risk = "evaluated"]
                     /\ pc' = "stopLoss"
             /\ UNCHANGED <<entryBidQty, entryAskQty, currentTradeAmount, currentLossLimit>>
  /\ UNCHANGED <<imbalanceUnchanged, rateLimit, coordVars, exVars>>
  /\ UNCHANGED <<statsVars, listenerVars, offsetVars>>

\* an error escapes the body of tick and reaches its catch-block
ImbalanceTickCatch ==
  /\ pc = "evaluate"
  /\ \E error \in GatewayErrors :
       IF error = "rateLimit"
       THEN LET position == getPosition(accountSnapshot)
                top == getTopPrices(depthSnapshot)
            IN /\ rateLimit' = registerRateLimit(rateLimit, now)
               /\ IF Abs(position.positionAmt) < EPS
                  THEN /\ frame' = [frame EXCEPT !.hadRateLimit = TRUE, !.ctx = "catch",
                                                 !.stopAmt = position.positionAmt]
                       /\ pc' = "finally"
                  ELSE /\ frame' = [frame EXCEPT
                            !.hadRateLimit = TRUE, !.ctx = "catch", !.position = position,
                            !.stopAmt = position.positionAmt,
                            !.bidPrice = top.topBid, !.askPrice = top.topAsk,
                            !.closeRet = "finally"]
                       /\ pc' = "close"
       ELSE /\ pc' = "finally"
            /\ UNCHANGED <<rateLimit, frame>>
  /\ UNCHANGED <<imbalanceUnchanged, coordVars, exVars, imbVars>>
  /\ UNCHANGED <<statsVars, listenerVars, offsetVars>>

\* checkEntryCondition after a failed marketEntry
EntryFailed ==
  /\ positionSide' = "none"
  /\ entryBidQty' = 0
  /\ entryAskQty' = 0
  /\ pc' = "stopLoss"

\* head of the retry loop of marketEntry, up to its create request
marketEntry ==
  /\ pc = "entry"
  /\ IF frame.attempts >= maxRetryAttempts \/ frame.attemptAmount < minTradeAmount
     THEN /\ EntryFailed
          /\ UNCHANGED <<frame, currentTradeAmount, currentLossLimit>>
     ELSE /\ frame' = [frame EXCEPT !.entry = EntryMark]
          /\ pc' = "awaitEntry"
          /\ UNCHANGED imbVars
  /\ UNCHANGED <<imbalanceUnchanged, rateLimit, coordVars, exVars>>
  /\ UNCHANGED <<statsVars, listenerVars, offsetVars>>

\* the create request of marketEntry returns.  An insufficient-margin answer is
\* offered while the loss limit can be halved within the integers.
EntryResponse ==
  /\ pc = "awaitEntry"
  /\ \E r \in {"ok", "margin"} \cup GatewayErrors :
       \/ /\ r = "ok"
          /\ nextId <= MaxOrders
          /\ nextId' = nextId + 1
          /\ currentTradeAmount' = frame.attemptAmount
          /\ pc' = "stopLoss"
          /\ frame' = Replied(frame, "entry", r)
          /\ UNCHANGED <<positionSide, entryBidQty, entryAskQty, currentLossLimit>>
       \/ /\ r = "margin"
          /\ currentLossLimit % 2 = 0
          /\ currentLossLimit' = currentLossLimit \div 2
          /\ frame' = [Replied(frame, "entry", r) EXCEPT !.attempts = @ + 1,
                                                        !.attemptAmount = @ \div 2]
          /\ IF frame.attempts + 1 < maxRetryAttempts
                /\ frame.attemptAmount \div 2 >= minTradeAmount
             THEN /\ pc' = "entry"
                  /\ UNCHANGED <<positionSide, entryBidQty, entryAskQty>>
             ELSE EntryFailed
          /\ UNCHANGED <<currentTradeAmount, nextId>>
       \/ /\ r \in GatewayErrors
          /\ frame' = [Replied(frame, "entry", r) EXCEPT !.attempts = @ + 1]
          /\ EntryFailed
          /\ UNCHANGED <<currentTradeAmount, currentLossLimit, nextId>>
  /\ UNCHANGED <<imbalanceUnchanged, rateLimit, coordVars, exOrders, orderFeed>>
  /\ UNCHANGED <<statsVars, listenerVars, offsetVars>>

checkStopLoss ==
  /\ pc = "stopLoss"
  /\ LET position == frame.position
         pnl == computePositionPnl(position, frame.bidPrice, frame.askPrice)
     IN IF Abs(position.positionAmt) >= EPS /\ pnl * LossUnit <= -currentLossLimit
        THEN /\ frame' = [frame EXCEPT !.closeRet = "afterExit", !.exitRet = "finally",
                                        !.risk = "close"]
             /\ pc' = "close"
        ELSE /\ pc' = "finally"
             /\ frame' = [frame EXCEPT !.risk = IF Abs(position.positionAmt) >= EPS
                                                   /\ @ = "none"
                                                THEN "evaluated" ELSE @]
  /\ UNCHANGED <<imbalanceUnchanged, rateLimit, coordVars, exVars, imbVars>>
  /\ UNCHANGED <<statsVars, listenerVars, offsetVars>>

\* marketExit once marketClose is over
marketExit ==
  /\ pc = "afterExit"
  /\ IF frame.closeThrew
     THEN UNCHANGED <<positionSide, entryBidQty, entryAskQty>>
     ELSE positionSide' = "none" /\ entryBidQty' = 0 /\ entryAskQty' = 0
  /\ pc' = frame.exitRet
  /\ UNCHANGED <<imbalanceUnchanged, rateLimit, frame, coordVars, exVars,
                 currentTradeAmount, currentLossLimit>>
  /\ UNCHANGED <<statsVars, listenerVars, offsetVars>>

NextImbalance ==
  \/ ImbalanceAdvance
  \/ AccountPush
  \/ ImbalanceDepthPush
  \/ ExchangePush
  \/ ImbalanceOrderPush
  \/ \E type \in Categories : TimerFires(type)
  \/ ImbalanceTick
  \/ TickReentered
  \/ Evaluate
  \/ ImbalanceTickCatch
  \/ marketEntry
  \/ EntryResponse
  \/ checkStopLoss
  \/ marketClose
  \/ CloseCancelResponse
  \/ CloseResponse
  \/ marketExit
  \/ TickFinally

\* ------------------------------------------------------------------------
\* The order planner on its own: makeOrderPlan applied to arbitrary inputs
\* ------------------------------------------------------------------------
\* most resting orders, most desired entries, highest price and widest tolerance
MaxPlanOpen == 2
MaxPlanTargets == 2
MaxPlanPrice == 2
MaxTolerance == 1

\* what an order or a desired entry is matched on
PlanKeys ==
  [side : {"BUY", "SELL"}, price : 1..MaxPlanPrice, reduceOnly : BOOLEAN]

SeqsUpTo(S, n) == UNION {[1..k -> S] : k \in 0..n}

\* resting orders with the keys ks, ids from first on
OrdersOf(ks, first) ==
  { [orderId |-> first + i - 1, side |-> ks[i].side, price |-> ks[i].price,
     reduceOnly |-> ks[i].reduceOnly, status |-> "NEW", type |-> "LIMIT"] :
    i \in 1..Len(ks) }

TargetsOf(ks) ==
  [i \in 1..Len(ks) |-> Quote(ks[i].side, ks[i].price, tradeAmount, ks[i].reduceOnly)]

InitPlanner ==
  /\ InitRL
  /\ StatsInit(StartTime)
  /\ accountSnapshot = <<>>
  /\ depthSnapshot = <<>>
  /\ \E ks \in SeqsUpTo(PlanKeys, MaxPlanOpen) :
       /\ openOrders = OrdersOf(ks, 1)
       /\ exOrders = OrdersOf(ks, 1)
       /\ nextId = Len(ks) + 1
  /\ \E ks \in SeqsUpTo(PlanKeys, MaxPlanTargets) : desiredOrders = TargetsOf(ks)
  /\ \E t \in 0..MaxTolerance : frame = [NoFrame EXCEPT !.tolerance = t]
  /\ pendingCancelOrders = {}
  /\ initialOrderSnapshotReady = TRUE
  /\ initialOrderResetDone = TRUE
  /\ processing = FALSE
  /\ pc = "plan"
  /\ locks = [c \in Categories |-> FALSE]
  /\ timers = [c \in Categories |-> FALSE]
  /\ pending = [c \in Categories |-> 0]
  /\ lockOp = NoLockOp
  /\ started = [c \in Categories |-> 0]
  /\ orderFeed = <<>>
  /\ positionSide = "none"
  /\ entryBidQty = 0
  /\ entryAskQty = 0
  /\ currentTradeAmount = depthTradeAmount
  /\ currentLossLimit = depthLossLimit * LossUnit

plannerUnchanged == <<rlVars, accountSnapshot, depthSnapshot, pendingCancelOrders,
                      desiredOrders, initialOrderSnapshotReady, initialOrderResetDone,
                      processing, coordVars, orderFeed, imbVars>>

\* syncOrders' call of makeOrderPlan(availableOrders, targets, tolerance)
PlanOrders ==
  /\ pc = "plan"
  /\ LET plan == makeOrderPlan(openOrders, desiredOrders, frame.tolerance)
     IN frame' = [frame EXCEPT !.toCancel = plan.toCancel, !.toPlace = plan.toPlace]
  /\ pc' = "planned"
  /\ UNCHANGED <<plannerUnchanged, openOrders, exOrders, nextId>>
  /\ UNCHANGED <<statsVars, listenerVars, offsetVars>>

\* the plan carried out: every cancel and every placement succeeds and is pushed
ApplyPlan ==
  /\ pc = "planned"
  /\ frame.ret # "applied"
  /\ LET placed == OrdersOf(frame.toPlace, nextId)
         after == (openOrders \ frame.toCancel) \cup placed
     IN /\ openOrders' = after
        /\ exOrders' = after
        /\ nextId' = nextId + Len(frame.toPlace)
  /\ frame' = [frame EXCEPT !.toCancel = {}, !.toPlace = <<>>, !.ret = "applied"]
  /\ pc' = "plan"
  /\ UNCHANGED plannerUnchanged
  /\ UNCHANGED <<statsVars, listenerVars, offsetVars>>

NextPlanner ==
  \/ PlanOrders
  \/ ApplyPlan

\* ------------------------------------------------------------------------
\* Specifications
\* ------------------------------------------------------------------------
vars == <<rlVars, engineVars, coordVars, exVars, imbVars, statsVars, listenerVars, offsetVars>>

\* the controller alone, no engine attached
InitController == InitRL /\ EngineInit /\ exOrders = {} /\ nextId = 1

SpecRL == InitController /\ [][NextRL]_vars

SpecMaker == InitMaker /\ [][NextMaker]_vars

SpecSync == InitSync /\ [][NextSync]_vars

SpecDesired == InitDesired /\ [][NextDesired]_vars

SpecImbalance == InitImbalance /\ [][NextImbalance]_vars

SpecPlanner == InitPlanner /\ [][NextPlanner]_vars

\* the entry decision alone: first-level quantities drawn from a grid
MaxQty == 12

\* watchDepth handler, any pair of first-level quantities
EntryDepthPush ==
  /\ pc = "idle"
  /\ \E b \in 0..MaxQty, a \in 0..MaxQty :
       depthSnapshot' = <<[bid |-> 1, ask |-> 2, bidQty |-> b, askQty |-> a]>>
  /\ UNCHANGED <<rlVars, accountSnapshot, openOrders, pendingCancelOrders, desiredOrders,
                 initialOrderSnapshotReady, initialOrderResetDone, processing, pc, frame,
                 coordVars, exVars, imbVars>>
  /\ UNCHANGED <<statsVars, listenerVars, offsetVars>>

NextEntry ==
  \/ AccountPush
  \/ EntryDepthPush
  \/ ImbalanceTick
  \/ Evaluate
  \/ marketEntry
  \/ TickFinally

SpecEntry == InitImbalance /\ [][NextEntry]_vars

\* ------------------------------------------------------------------------
\* The trading statistics of an engine: trade events, snapshot reads, the clock
\* ------------------------------------------------------------------------
MaxTrades == 3
MaxWindows == 2
StatsMaxTime == StartTime + MaxWindows * (oneHour + 1)

\* trade-execution events of the engine's symbol
TradeValues ==
  [isMaker : BOOLEAN, commission : {-1, 1}, realizedPnl : {-1, 1}, quoteQty : {2}]

statsUnchanged == <<rateLimit, rlHistory, engineVars, coordVars, exVars, imbVars, listenerVars,
                   offsetVars>>

\* the clock moves to a time just inside, at the end of, or just after the hourly window
StatsAdvance ==
  /\ \E t \in { tradingStats.hourly.hourStartTime + d :
                  d \in {1, oneHour - 1, oneHour, oneHour + 1} } :
       /\ t > now
       /\ t <= StatsMaxTime
       /\ now' = t
  /\ statsHistory' = [statsHistory EXCEPT !.op = "clock"]
  /\ UNCHANGED <<statsUnchanged, tradingStats, hourlyExport>>

\* watchTrades handler: events of other symbols are dropped
TradePush ==
  /\ Yielded
  /\ \E own \in BOOLEAN, tradeData \in TradeValues :
       IF own
       THEN /\ statsHistory.maker + statsHistory.taker < MaxTrades
            /\ tradingStats' = handleRealTrade(tradingStats, tradeData)
            /\ statsHistory' = [statsHistory EXCEPT
                                  !.maker = IF tradeData.isMaker THEN @ + 1 ELSE @,
                                  !.taker = IF tradeData.isMaker THEN @ ELSE @ + 1,
                                  !.op = "trade"]
       ELSE /\ statsHistory' = [statsHistory EXCEPT !.op = "other"]
            /\ UNCHANGED tradingStats
  /\ UNCHANGED <<now, statsUnchanged, hourlyExport>>

\* buildSnapshot / getSnapshot: the hourly window is tested on every read; the
\* reset copies the hourly record for the logger before it clears it
buildSnapshot ==
  IF shouldResetHourlyStats(tradingStats.hourly, now)
  THEN /\ tradingStats' = [tradingStats EXCEPT !.hourly = resetHourlyStats(@, now)]
       /\ hourlyExport' = [hourlyExport EXCEPT
                             !.pending = Append(@, tradingStats.hourly)]
       /\ statsHistory' = [statsHistory EXCEPT !.resets = @ + 1, !.op = "reset"]
  ELSE /\ statsHistory' = [statsHistory EXCEPT !.op = "read"]
       /\ UNCHANGED <<tradingStats, hourlyExport>>

\* a snapshot is read
SnapshotRead ==
  /\ buildSnapshot
  /\ UNCHANGED <<now, statsUnchanged>>

\* resetHourlyStats after its await: the copy is handed to logHourlyStats
ExportHourly ==
  /\ hourlyExport.pending # <<>>
  /\ hourlyExport' = [pending |-> Tail(hourlyExport.pending),
                      written |-> Append(hourlyExport.written, Head(hourlyExport.pending))]
  /\ statsHistory' = [statsHistory EXCEPT !.op = "export"]
  /\ UNCHANGED <<now, statsUnchanged, tradingStats>>

NextStats ==
  \/ StatsAdvance
  \/ TradePush
  \/ SnapshotRead
  \/ ExportHourly

SpecStats == InitController /\ [][NextStats]_vars

\* ------------------------------------------------------------------------
\* The update listeners of an engine: on, off, emitUpdate
\* ------------------------------------------------------------------------
Handlers == {"h1", "h2", "h3"}
MaxEmits == 2

Range(seq) == {seq[i] : i \in 1..Len(seq)}

\* mutant: the loop has no try of its own, the first throw ends it in the catch
\* of emitUpdate
RECURSIVE forEachHandler_OuterCatchOnly(_, _, _, _)
forEachHandler_OuterCatchOnly(handlers, faulty, received, threw) ==
  IF handlers = <<>> THEN [received |-> received, threw |-> threw, escaped |-> FALSE]
  ELSE IF Head(handlers) \in faulty
  THEN [received |-> Append(received, Head(handlers)),
        threw |-> Append(threw, Head(handlers)), escaped |-> FALSE]
  ELSE forEachHandler_OuterCatchOnly(Tail(handlers), faulty,
                                     Append(received, Head(handlers)), threw)

\* handlers.forEach of emitUpdate: every handler is called with the snapshot in
\* registration order; a handler of faulty throws, which the try around the call
\* catches and logs
RECURSIVE forEachHandler(_, _, _, _)
forEachHandler(handlers, faulty, received, threw) ==
  IF handlers = <<>> THEN [received |-> received, threw |-> threw, escaped |-> FALSE]
  ELSE forEachHandler(Tail(handlers), faulty,
                      Append(received, Head(handlers)),
                      IF Head(handlers) \in faulty
                      THEN Append(threw, Head(handlers)) ELSE threw)

listenersUnchanged == <<rlVars, engineVars, coordVars, exVars, imbVars, offsetVars>>

\* on("update", handler): a Set, so a registered handler is not added twice
on ==
  /\ \E handler \in Handlers :
       listeners' = IF handler \in Range(listeners) THEN listeners
                    ELSE Append(listeners, handler)
  /\ UNCHANGED <<listenersUnchanged, statsVars, delivery>>

\* off("update", handler)
off ==
  /\ \E handler \in Handlers :
       listeners' = SelectSeq(listeners, LAMBDA h : h # handler)
  /\ UNCHANGED <<listenersUnchanged, statsVars, delivery>>

\* emitUpdate: the snapshot is built once and handed to every handler; any of the
\* handlers may throw
emitUpdate ==
  /\ delivery.emits < MaxEmits
  /\ buildSnapshot
  /\ \E faulty \in SUBSET Range(listeners) :
       LET res == forEachHandler(listeners, faulty, <<>>, <<>>)
       IN delivery' = [emits |-> delivery.emits + 1, received |-> res.received,
                       threw |-> res.threw, escaped |-> res.escaped]
  /\ UNCHANGED <<listenersUnchanged, listeners>>

NextListeners ==
  \/ on
  \/ off
  \/ emitUpdate

SpecListeners == InitController /\ [][NextListeners]_vars

\* ------------------------------------------------------------------------
\* OffsetMakerEngine: the depth sums and the forced exit of tick
\* ------------------------------------------------------------------------
depthLevels == 10
MaxLevels == 2
\* level quantities: one sixth of 6 is 1, of 12 is 1 + 1
LevelQtyValues == {0, 1, 5, 6}

RECURSIVE SumFirst(_, _)
SumFirst(levels, n) ==
  IF levels = <<>> \/ n = 0 THEN 0
  ELSE Head(levels) + SumFirst(Tail(levels), n - 1)

\* evaluateDepth: the quantities of the top depthLevels levels of each side
evaluateDepth(o) ==
  [buySum |-> SumFirst(o.bids, depthLevels), sellSum |-> SumFirst(o.asks, depthLevels)]

\* handleImbalanceExit: longExitRequired or shortExitRequired of an open position
ExitRequired(positionAmt, buySum, sellSum) ==
  /\ Abs(positionAmt) >= EPS
  /\ \/ positionAmt > 0 /\ (buySum = 0 \/ buySum * 6 < sellSum)
     \/ positionAmt < 0 /\ (sellSum = 0 \/ sellSum * 6 < buySum)

LevelQtys == UNION {[1..n -> LevelQtyValues] : n \in 1..MaxLevels}

offsetUnchanged == <<rlVars, engineVars, coordVars, exVars, imbVars, statsVars, listenerVars>>

\* watchAccount handler of the offset maker
OffsetAccountPush ==
  /\ \E amt \in {-1, 0, 1} : offset' = [offset EXCEPT !.positionAmt = amt]
  /\ offset'.positionAmt # offset.positionAmt
  /\ UNCHANGED offsetUnchanged

\* watchDepth handler of the offset maker
OffsetDepthPush ==
  /\ \E bids \in LevelQtys, asks \in LevelQtys :
       offset' = [offset EXCEPT !.bids = bids, !.asks = asks]
  /\ UNCHANGED offsetUnchanged

\* tick of the offset maker up to handleImbalanceExit: with a forced exit due it
\* flushes and awaits the guarded market close; otherwise it goes on to quote
OffsetTick ==
  /\ offset.pc = "idle"
  /\ offset.bids # <<>> /\ offset.asks # <<>>
  /\ LET stats == evaluateDepth(offset)
     IN IF ExitRequired(offset.positionAmt, stats.buySum, stats.sellSum)
        THEN offset' = [offset EXCEPT !.pc = "awaitClose", !.exit = TRUE,
                                      !.close = "none", !.quoted = FALSE]
        ELSE offset' = [offset EXCEPT !.pc = "quote", !.exit = FALSE,
                                      !.close = "none", !.quoted = FALSE]
  /\ UNCHANGED offsetUnchanged

\* marketClose of handleImbalanceExit returns or throws: either way the exit
\* counts as handled and tick returns without quoting
OffsetCloseResponse ==
  /\ offset.pc = "awaitClose"
  /\ \E r \in {"ok", "unknown"} \cup GatewayErrors :
       offset' = [offset EXCEPT !.pc = "idle", !.close = r]
  /\ UNCHANGED offsetUnchanged

\* the rest of tick: desired orders, syncOrders, checkRisk
OffsetQuote ==
  /\ offset.pc = "quote"
  /\ offset' = [offset EXCEPT !.pc = "idle", !.quoted = TRUE]
  /\ UNCHANGED offsetUnchanged

NextOffset ==
  \/ OffsetAccountPush
  \/ OffsetDepthPush
  \/ OffsetTick
  \/ OffsetCloseResponse
  \/ OffsetQuote

SpecOffset == InitController /\ [][NextOffset]_vars

\* a synchronous stretch of tick runs to its next await
RunToAwait ==
  \/ ensureStartupOrderReset
  \/ ComputeDesired
  \/ TickCatch
  \/ CancelNext
  \/ PlaceNext
  \/ checkRisk
  \/ flushOrders
  \/ marketClose
  \/ TickFinally

\* the runtime finishes synchronous code, and an armed timer, which can fire
\* whenever the tick yields, does fire
SpecMakerFair ==
  /\ SpecMaker
  /\ WF_vars(RunToAwait)
  /\ \A type \in Categories : SF_vars(TimerFires(type))

\* ------------------------------------------------------------------------
\* The controller while ticks keep coming and the overloads stop
\* ------------------------------------------------------------------------
\* an overload early enough for the clock to cover the pause window and the
\* recovery window that follow it
EarlyOverload ==
  /\ now + pauseMs <= MaxTime
  /\ now + recoveryMs <= MaxTime
  /\ CallRegisterRateLimit

\* the finally-block of a tick that caught no rate-limit error
QuietCycleComplete == CallOnCycleComplete /\ ~rlOp'.had

NextRecovery ==
  \/ Advance
  \/ CallBeforeCycle
  \/ EarlyOverload
  \/ CallOnCycleComplete

\* time advances, and the timer keeps invoking tick: beforeCycle on entry,
\* onCycleComplete(hadRateLimit) in its finally-block
SpecRecovery ==
  /\ InitController
  /\ [][NextRecovery]_vars
  /\ WF_vars(Advance)
  /\ WF_vars(CallBeforeCycle)
  /\ WF_vars(QuietCycleComplete)

\* ------------------------------------------------------------------------
\* Claims about the RateLimitController (checked under SpecRL)
\* ------------------------------------------------------------------------
InPauseWindow(rl, t) == rl.state = "paused" /\ ~PauseExpired(rl, t)

\* C6: registerRateLimit escalates normal -> degraded (interval 2 x base, entries
\* suppressed), degraded -> paused with pausedUntil = now + pauseMs, paused stays
\* paused with pausedUntil = now + pauseMs; every call stamps lastRateLimitAt; the
\* beforeCycle after an elapsed pause window leaves the state degraded.
C6_Escalation ==
  /\ rlOp.op = "registerRateLimit" =>
       /\ rateLimit.lastRateLimitAt = rlOp.at
       /\ rlOp.from.state = "normal" =>
            /\ rateLimit.state = "degraded"
            /\ currentInterval(rateLimit) = 2 * baseInterval
            /\ rateLimit.entriesSuppressed
       /\ rlOp.from.state = "degraded" =>
            /\ rateLimit.state = "paused"
            /\ rateLimit.pausedUntil = <<rlOp.at + pauseMs>>
       /\ rlOp.from.state = "paused" =>
            /\ rateLimit.state = "paused"
            /\ rateLimit.pausedUntil = <<rlOp.at + pauseMs>>
  /\ (rlOp.op = "beforeCycle" /\ PauseExpired(rlOp.from, rlOp.at)) =>
       rateLimit.state = "degraded"

\* C6 witness: a pause armed by two escalations has elapsed and beforeCycle demoted it
C6_Witness ==
  /\ rlOp.op = "beforeCycle"
  /\ rlOp.from.state = "paused"
  /\ rlOp.from.pausedUntil = <<lastOverloadAt + pauseMs>>
  /\ rateLimit.state = "degraded"

AllowedTransitions ==
  { <<"normal", "degraded">>, <<"degraded", "paused">>,
    <<"paused", "degraded">>, <<"degraded", "normal">> }

\* C7: every call of the controller either keeps the state or makes one of the
\* moves normal->degraded, degraded->paused, paused->degraded, degraded->normal.
C7_Transitions ==
  \/ rateLimit.state = rlOp.from.state
  \/ <<rlOp.from.state, rateLimit.state>> \in AllowedTransitions

\* C7 witness: a controller that went through a pause is back to normal
C7_Witness ==
  /\ rlOp.op = "onCycleComplete"
  /\ rlOp.from.state = "degraded"
  /\ rateLimit.state = "normal"
  /\ lastOverloadAt > 0

\* C8 as stated: outside an unexpired pause window, skip iff the time since the
\* last call that returned run is below the current interval, and lastCycleAt is
\* stamped only by a call that returns run.
C8_SkipSinceLastRun ==
  /\ rateLimit.lastCycleAt = lastRunAt
  /\ (rlOp.op = "beforeCycle" /\ ~InPauseWindow(rlOp.from, rlOp.at)) =>
       /\ rlOp.ret \in {"skip", "run"}
       /\ rlOp.ret = "skip" <=>
            rlOp.at - rlOp.runBefore <
              (IF rateLimit.state = "normal" THEN baseInterval ELSE 2 * baseInterval)

\* C8 amended: outside an unexpired pause window, skip iff the time since
\* lastCycleAt is below the current interval (2 x base while degraded, 1 x base
\* while normal), otherwise run; lastCycleAt is the time of the latest of: a
\* beforeCycle that returned run or paused, a registerRateLimit made in state normal.
C8_SkipSinceLastStamp ==
  /\ rateLimit.lastCycleAt = lastStampAt
  /\ rlOp.op = "beforeCycle" =>
       /\ rlOp.ret = "paused" <=> InPauseWindow(rlOp.from, rlOp.at)
       /\ ~InPauseWindow(rlOp.from, rlOp.at) =>
            /\ rlOp.ret \in {"skip", "run"}
            /\ rlOp.ret = "skip" <=>
                 rlOp.at - rlOp.from.lastCycleAt <
                   (IF rateLimit.state = "normal" THEN baseInterval ELSE 2 * baseInterval)

\* C8 witness: a skip although a full doubled interval has passed since the last run
C8_Witness ==
  /\ rlOp.op = "beforeCycle"
  /\ rlOp.ret = "skip"
  /\ rlOp.at - rlOp.runBefore >= 2 * baseInterval

\* C9: degraded -> normal happens only in onCycleComplete(false), at least
\* recoveryMs after the latest registerRateLimit, and re-allows entries;
\* onCycleComplete(true) changes nothing; so a controller that is normal after an
\* overload is at least recoveryMs past it.
C9_Recovery ==
  /\ (rlOp.from.state = "degraded" /\ rateLimit.state = "normal") =>
       /\ rlOp.op = "onCycleComplete"
       /\ ~rlOp.had
       /\ rlOp.at - lastOverloadAt >= recoveryMs
       /\ ~rateLimit.entriesSuppressed
  /\ (rlOp.op = "onCycleComplete" /\ rlOp.had) => rateLimit = rlOp.from
  /\ (rateLimit.state = "normal" /\ lastOverloadAt > 0) =>
       now - lastOverloadAt >= recoveryMs

\* C9 witness: recovered to normal, with entries allowed again, after an overload
C9_Witness ==
  /\ rateLimit.state = "normal"
  /\ lastOverloadAt > 0
  /\ rlOp.op = "onCycleComplete"
  /\ rlOp.from.entriesSuppressed
  /\ ~rateLimit.entriesSuppressed

\* ------------------------------------------------------------------------
\* Claims about the lock tables of the maker engine (checked under SpecMaker)
\* ------------------------------------------------------------------------
\* C1: in every category at most one create / market-close operation has started
\* since the category's lock was last released or timed out.
C1_OnePerCategory == \A c \in Categories : started[c] <= 1

\* C1 witness: a second placement was attempted while the first one held the lock
C1_Witness ==
  /\ lockOp.op = "busy"
  /\ lockOp.by = "placeOrder"
  /\ started["LIMIT"] = 1

\* C2: an acquire on a held category leaves busy flag, pending id and timer as
\* they were; a release leaves the category not busy, without pending id and
\* without armed timer.
C2_AcquireRelease ==
  /\ lockOp.op = "busy" =>
       /\ \A c \in lockOp.types : locks[c]
       /\ Tables = lockOp.before[1]
  /\ lockOp.op = "release" =>
       \A c \in lockOp.types : ~locks[c] /\ pending[c] = 0 /\ ~timers[c]

\* C2 witness: an order push released a category that was busy with a pending id
C2_Witness ==
  /\ lockOp.op = "release"
  /\ lockOp.by = "push"
  /\ "LIMIT" \in lockOp.types
  /\ ~locks["LIMIT"]

\* C3: in every state and for every category, busy <=> (a pending id is recorded
\* or a timer is armed).
C3_BusyIffPendingOrTimer ==
  \A c \in Categories : locks[c] <=> (pending[c] # 0 \/ timers[c])

\* C4: an order push releases a busy category only if it was produced after the
\* category's pending order became visible (and shows that order gone or in a
\* final status); a rejected create leaves the category released.
C4_LockedUntilResolved ==
  /\ (lockOp.op = "release" /\ lockOp.by = "push") =>
       lockOp.stale = {}
  /\ (lockOp.op = "release" /\ lockOp.by = "reject") =>
       \A c \in lockOp.types : ~locks[c]

\* C5: a busy category is eventually not busy (the release timer fires even when
\* no order push arrives).
C5_EventuallyReleased == \A c \in Categories : locks[c] ~> ~locks[c]

\* C5 witness: a timer released a category while no order push was on its way
C5_Witness ==
  /\ lockOp.op = "release"
  /\ lockOp.by = "timer"
  /\ orderFeed = <<>>
  /\ \A c \in lockOp.types : ~locks[c]

RECURSIVE RunsWithin(_, _, _)
RunsWithin(rl, t, k) ==
  IF k = 0 THEN FALSE
  ELSE LET res == beforeCycle(rl, t)
       IN res[1] = "run" \/ RunsWithin(res[2], t + baseInterval, k - 1)

\* the ticks a pause window of pauseMs swallows (fewer than pauseMs / baseInterval
\* rounded up), the skip that follows the last of them, and the tick that runs
TicksToLeavePause == (pauseMs + baseInterval - 1) \div baseInterval + 1

\* the ticks after time t that fall before the end of the pause window
TicksInPause(rl, t) ==
  IF rl.pausedUntil[1] - t - 1 < 0 THEN 0
  ELSE (rl.pausedUntil[1] - t - 1) \div baseInterval

\* a tick body that ran in the try-block with a position open has evaluated the
\* stop-loss, and has attempted the close when the loss limit was reached
RiskEvaluatedByTick ==
  (pc = "finally" /\ frame.ctx = "try" /\ Abs(frame.position.positionAmt) >= EPS) =>
     /\ frame.risk # "none"
     /\ computePositionPnl(frame.position, frame.bidPrice, frame.askPrice)
            * LossUnit <= -currentLossLimit => frame.risk = "close"

ExpectedClosePrice ==
  IF frame.position.positionAmt > 0 THEN frame.bidPrice ELSE frame.askPrice

\* both prices are known and the expected one is further than maxCloseSlippagePct
\* percent from the mark price
CloseDeviates ==
  /\ frame.position.markPrice > 0
  /\ ExpectedClosePrice > 0
  /\ 100 * Abs(ExpectedClosePrice - frame.position.markPrice)
       > maxCloseSlippagePct * frame.position.markPrice

\* C12: marketClose has no request at the gateway (neither its cancel nor its
\* reduce-only market order) while the expected price deviates from the mark price
\* by more than the allowed percentage; a rejected close left the exchange alone.
C12_GuardBeforeSubmission ==
  /\ pc \in {"awaitCloseCancel", "awaitClose"} => ~CloseDeviates
  /\ frame.close = "requested" => ~CloseDeviates
  /\ CloseDeviates => frame.close \in {"none", "rejected"}

\* C12 witness: a stop-loss close was rejected by the guard
C12_Witness ==
  /\ frame.close = "rejected"
  /\ frame.risk = "close"
  /\ CloseDeviates
  /\ pc = "finally"

C14_OneCallback ==
  /\ frame.cancelResult = "none" <=> frame.callbacks = <<>>
  /\ frame.cancelResult # "none" =>
       /\ Len(frame.callbacks) = 1
       /\ frame.callbacks[1] = "onSuccess" <=> frame.cancelResult = "ok"
       /\ frame.callbacks[1] = "onAlreadyGone" <=> frame.cancelResult = "unknown"
       /\ frame.callbacks[1] = "onError" <=> frame.cancelResult \in GatewayErrors
  /\ pc = "awaitCancel" => frame.callbacks = <<>>

\* C14 witness: a cancel met an unknown order and onAlreadyGone alone was invoked
C14_Witness ==
  /\ frame.cancelResult = "unknown"
  /\ frame.callbacks = <<"onAlreadyGone">>
  /\ pc = "cancelNext"

\* the step leaves the rate limiter and the tick's error state as they were
LimiterUntouched ==
  /\ rateLimit' = rateLimit
  /\ frame'.hadRateLimit = frame.hadRateLimit
  /\ frame'.ctx = frame.ctx

Satisfied(open, targets, tolerance) ==
  /\ \A i \in 1..Len(targets) : \E o \in open : MatchesTarget(o, targets[i], tolerance)
  /\ \A o \in open : \E i \in 1..Len(targets) : MatchesTarget(o, targets[i], tolerance)

\* no two resting orders match one desired entry, no two entries one resting order
OneToOne(open, targets, tolerance) ==
  /\ \A i \in 1..Len(targets) : \A o, q \in open :
       (MatchesTarget(o, targets[i], tolerance) /\ MatchesTarget(q, targets[i], tolerance))
         => o = q
  /\ \A o \in open : \A i, j \in 1..Len(targets) :
       (MatchesTarget(o, targets[i], tolerance) /\ MatchesTarget(o, targets[j], tolerance))
         => i = j

PlanIsEmpty == frame.toCancel = {} /\ frame.toPlace = <<>>

KeptByPlan == openOrders \ frame.toCancel

SameSide(o, t) == o.side = t.side /\ o.reduceOnly = t.reduceOnly

\* C17: for every input, a resting order whose (side, reduce-only) pair matches no
\* desired entry is cancelled; a desired entry with no resting order within
\* tolerance is placed; a kept order is within tolerance of a desired entry, is not
\* cancelled, and stands for one desired entry that is not placed (kept and placed
\* together account for the desired entries one for one).
C17_Complete ==
  pc = "planned" =>
    /\ frame.toCancel \subseteq openOrders
    /\ \A o \in openOrders :
         (\A i \in 1..Len(desiredOrders) : ~SameSide(o, desiredOrders[i]))
           => o \in frame.toCancel
    /\ \A i \in 1..Len(desiredOrders) :
         (\A o \in openOrders : ~MatchesTarget(o, desiredOrders[i], frame.tolerance))
           => \E k \in 1..Len(frame.toPlace) : frame.toPlace[k] = desiredOrders[i]
    /\ \A k \in 1..Len(frame.toPlace) :
         \E i \in 1..Len(desiredOrders) : frame.toPlace[k] = desiredOrders[i]
    /\ \A o \in KeptByPlan :
         \E i \in 1..Len(desiredOrders) : MatchesTarget(o, desiredOrders[i], frame.tolerance)
    /\ Cardinality(KeptByPlan) + Len(frame.toPlace) = Len(desiredOrders)

\* C17 witness: of two resting orders one is kept and one cancelled, and one of two
\* desired entries is placed
C17_Witness ==
  /\ pc = "planned"
  /\ frame.ret # "applied"
  /\ Cardinality(openOrders) = 2
  /\ Cardinality(frame.toCancel) = 1
  /\ Len(desiredOrders) = 2
  /\ Len(frame.toPlace) = 1

\* ------------------------------------------------------------------------
\* Claims about the tick (checked under SpecImbalance)
\* ------------------------------------------------------------------------
\* a tick invoked while the previous one awaits returns at this step
ReentryStep == pc \in Awaiting /\ ~frame.reentered /\ frame'.reentered

\* C18: one tick body at a time.  The processing flag is up exactly while a tick
\* body runs, no second body ever starts, and a tick invoked while the previous
\* one awaits a request returns without touching the rate limiter (no beforeCycle,
\* no onCycleComplete), the flag, the running tick or the exchange.
C18_OneTickAtATime ==
  /\ [](processing <=> pc # "idle")
  /\ [](~frame.overlap)
  /\ [][ReentryStep =>
          /\ UNCHANGED <<rateLimit, processing, pc, coordVars, exVars, imbVars,
                         openOrders, pendingCancelOrders>>
          /\ frame' = [frame EXCEPT !.reentered = TRUE]]_vars

\* C18 witness: a tick came while the previous one awaited its entry order, and
\* the previous one is still there
C18_Witness ==
  /\ frame.reentered
  /\ pc = "awaitEntry"
  /\ processing

\* ------------------------------------------------------------------------
\* Claims about the startup reset and about rate-limit errors
\* ------------------------------------------------------------------------
\* a request that rests an order or opens a position is at the gateway
TradingRequest == pc \in {"awaitPlace", "awaitEntry"}

\* the startup cancel-all returns with an error other than unknown-order
ResetFails ==
  /\ pc = "awaitReset"
  /\ pc' # pc
  /\ frame'.reply[1] = "cancelAll"
  /\ frame'.reply[2] \in GatewayErrors

\* C19: no order is placed and no entry is made before the startup reset is
\* done; a cancel-all that fails with an error other than unknown-order leaves
\* the reset undone and ends the tick, so that a later tick issues it again;
\* once the reset is done cancel-all is never at the gateway again.
C19_StartupGate ==
  /\ [](TradingRequest => initialOrderResetDone)
  /\ [](initialOrderResetDone => pc # "awaitReset")
  /\ [][ResetFails => (~initialOrderResetDone' /\ pc' = "finally")]_vars
  /\ [][initialOrderResetDone => initialOrderResetDone']_vars

\* C20: a tick in which a gateway request (create, market entry, cancel,
\* cancel-all, market close) failed with a rate-limit error has registered it
\* with the rate limiter (which is then throttled or paused) and hands
\* hadRateLimit = TRUE to onCycleComplete.
C20_RateLimitEscalates ==
  (pc = "finally" /\ frame.rateLimited) =>
     /\ frame.hadRateLimit
     /\ rateLimit.state # "normal"

\* C21: a tick that caught a rate-limit error while a position was open has
\* attempted the guarded market close of the whole position, whatever its PnL:
\* the close was requested for |positionAmt|, or the attempt was stopped by the
\* price guard or by the MARKET_CLOSE lock.
C21_ForcedFlatten ==
  (pc = "finally" /\ frame.ctx = "catch" /\ frame.hadRateLimit
     /\ Abs(frame.stopAmt) >= EPS) =>
       /\ frame.close # "none"
       /\ frame.close = "requested" => frame.closeQty = Abs(frame.stopAmt)

\* ------------------------------------------------------------------------
\* Claims about the tick boundary (checked under SpecMaker)
\* ------------------------------------------------------------------------
\* the step with which a tick body ends
TickEnds == pc # "idle" /\ pc' = "idle"

\* C22: every tick body ends in the finally-block, whatever happened in it: the
\* step that ends it calls onCycleComplete with the tick's hadRateLimit and
\* lowers the processing flag; before that step the controller is changed only
\* by the registration in the catch-block, so onCycleComplete is called once;
\* with no tick body running the flag is down and the next tick can start.
C22_ErrorsStayInTick ==
  /\ [](pc = "idle" => ~processing)
  /\ [][TickEnds =>
          /\ pc = "finally"
          /\ ~processing'
          /\ rateLimit' = onCycleComplete(rateLimit, frame.hadRateLimit, now)]_vars
  /\ [][(pc # "idle" /\ pc' # "idle") =>
          \/ rateLimit' = rateLimit
          \/ /\ frame'.ctx = "catch"
             /\ frame'.hadRateLimit
             /\ rateLimit' = registerRateLimit(rateLimit, now)]_vars

\* C22 witness: a tick that caught a rate-limit error has ended and the next
\* tick can start
C22_Witness ==
  /\ pc = "idle"
  /\ ~processing
  /\ rateLimit.lastRateLimitAt = now
  /\ rateLimit.state = "degraded"

\* ------------------------------------------------------------------------
\* Claims about the stop-loss
\* ------------------------------------------------------------------------
\* the PnL of the position the risk check was handed, at the prices it was handed
RiskPnl == computePositionPnl(frame.position, frame.bidPrice, frame.askPrice)

\* the risk check of the maker engine, of the depth-imbalance engine, runs on an
\* open position
MakerRiskStep == pc = "risk" /\ pc' # pc /\ Abs(frame.position.positionAmt) >= EPS
ImbalanceRiskStep == pc = "stopLoss" /\ pc' # pc /\ Abs(frame.position.positionAmt) >= EPS

\* C23 (as stated): the risk check on an open position triggers the stop-loss
\* exit exactly when PnL <= -L, L the configured lossLimit (maker) or the
\* current, possibly halved, loss limit (depth-imbalance).
C23_StopLossIff ==
  /\ [][MakerRiskStep => (frame'.risk = "close" <=> RiskPnl <= -lossLimit)]_vars
  /\ [][ImbalanceRiskStep => (pc' = "close" <=> RiskPnl * LossUnit <= -currentLossLimit)]_vars

\* C23 (amended): as stated, but the maker's risk check triggers only when the
\* position's entry price is known as well; without it no exit is triggered
\* whatever the prices.
C23_StopLossIffEntryKnown ==
  /\ [][MakerRiskStep =>
          (frame'.risk = "close" <=>
             (Abs(frame.position.entryPrice) > 0 /\ RiskPnl <= -lossLimit))]_vars
  /\ [][ImbalanceRiskStep => (pc' = "close" <=> RiskPnl * LossUnit <= -currentLossLimit)]_vars

\* C23 witness: a loss exactly equal to the limit triggered the exit
C23_Witness ==
  /\ frame.risk = "close"
  /\ frame.ctx = "try"
  /\ Abs(frame.position.entryPrice) > 0
  /\ RiskPnl = -lossLimit
  /\ pc = "flush"

\* ------------------------------------------------------------------------
\* Claims about the depth-imbalance entry (checked under SpecImbalance)
\* ------------------------------------------------------------------------
\* the create request of marketEntry is answered with insufficient margin, with
\* another error
MarginRejected ==
  pc = "awaitEntry" /\ pc' # "awaitEntry" /\ frame'.reply = <<"entry", "margin">>
EntryErrored ==
  pc = "awaitEntry" /\ pc' # "awaitEntry" /\ frame'.reply[2] \in GatewayErrors

\* what every reading of the retry bound shares: with A == currentTradeAmount the
\* amount the loop started from, the request after k margin rejections is for
\* A / 2^k and is the (k+1)-th of fewer than maxRetryAttempts; a margin rejection
\* that does not end the loop halves the amount and counts one attempt; another
\* error ends the loop at once
RetrySteps ==
  /\ [](pc = "awaitEntry" =>
          /\ frame.attemptAmount * 2^frame.attempts = currentTradeAmount
          /\ frame.attempts < maxRetryAttempts)
  /\ [][(MarginRejected /\ pc' = "entry") =>
          /\ frame'.attempts = frame.attempts + 1
          /\ frame'.attemptAmount * 2 = frame.attemptAmount]_vars
  /\ [][EntryErrored => (pc' = "stopLoss" /\ positionSide' = "none")]_vars

BidQty == depthSnapshot[1].bidQty
AskQty == depthSnapshot[1].askQty
LargerQty == IF BidQty > AskQty THEN BidQty ELSE AskQty
SmallerQty == IF BidQty > AskQty THEN AskQty ELSE BidQty

\* the tick body reads the book and decides (no error takes it to the catch-block)
\* with no position, a two-sided book and both quantities > 0
FlatDecision ==
  /\ pc = "evaluate"
  /\ pc' # pc
  /\ frame'.ctx = "try"
  /\ frame'.bidPrice # 0
  /\ Abs(getPosition(accountSnapshot).positionAmt) < EPS
  /\ getTopPrices(depthSnapshot).topBid # 0
  /\ getTopPrices(depthSnapshot).topAsk # 0
  /\ BidQty > 0
  /\ AskQty > 0

\* C25: when flat, the entry loop is entered exactly when the larger first-level
\* quantity is at least minDepthQty and at least imbalanceRatio times the smaller
\* one; the side is BUY when bidQty > askQty and SELL otherwise, the amount is the
\* current trade amount, and the loop issues the create request.  With a position
\* open, or a quantity of 0, no entry is made.
C25_EntryDecision ==
  /\ [][FlatDecision =>
          /\ pc' = "entry" <=> (/\ LargerQty >= minDepthQty
                                /\ LargerQty >= imbalanceRatio * SmallerQty)
          /\ pc' = "entry" =>
               /\ frame'.side = (IF BidQty > AskQty THEN "BUY" ELSE "SELL")
               /\ frame'.attemptAmount = currentTradeAmount
               /\ frame'.attempts = 0]_vars
  /\ [][(pc = "evaluate" /\ pc' # pc /\ ~FlatDecision) => pc' # "entry"]_vars
  /\ [][(pc = "entry" /\ pc' # pc /\ frame.attempts = 0) => pc' = "awaitEntry"]_vars

\* C25 witness: the bid side is below the minimum depth, the ask side is above it
\* and more than imbalanceRatio times larger: the engine is entering SELL
C25_Witness ==
  /\ pc = "awaitEntry"
  /\ frame.side = "SELL"
  /\ BidQty < minDepthQty
  /\ AskQty >= minDepthQty
  /\ AskQty > imbalanceRatio * BidQty
  /\ BidQty > 0

\* ------------------------------------------------------------------------
\* Claims about the trading statistics (checked under SpecStats)
\* ------------------------------------------------------------------------
\* a snapshot is read at this step
ReadStep == statsHistory'.op \in {"read", "reset"}

\* time since the hourly window started
WindowAge == now - tradingStats.hourly.hourStartTime

C27_TotalsCountTrades ==
  /\ [](/\ tradingStats.total.makerOrderCount = statsHistory.maker
        /\ tradingStats.total.takerOrderCount = statsHistory.taker
        /\ tradingStats.hourly.makerOrderCount <= tradingStats.total.makerOrderCount
        /\ tradingStats.hourly.takerOrderCount <= tradingStats.total.takerOrderCount)
  /\ [][/\ tradingStats'.total.makerOrderCount >= tradingStats.total.makerOrderCount
        /\ tradingStats'.total.takerOrderCount >= tradingStats.total.takerOrderCount
        /\ tradingStats'.total.totalVolume >= tradingStats.total.totalVolume
        /\ tradingStats'.total.totalFees >= tradingStats.total.totalFees
        /\ tradingStats'.total.startTime = tradingStats.total.startTime]_vars
  /\ [][statsHistory'.op = "other" => tradingStats' = tradingStats]_vars

\* C27 witness: a maker fill before and a taker fill after an hourly reset: the
\* totals hold both, the hourly statistics the second
C27_Witness ==
  /\ statsHistory.resets = 1
  /\ tradingStats.total.makerOrderCount = 1
  /\ tradingStats.total.takerOrderCount = 1
  /\ tradingStats.hourly.makerOrderCount = 0
  /\ tradingStats.hourly.takerOrderCount = 1
  /\ statsHistory.op = "other"

\* ------------------------------------------------------------------------
\* Claims about the update listeners (checked under SpecListeners)
\* ------------------------------------------------------------------------
\* C28: every emit hands the snapshot to every registered listener, once and in
\* registration order, whichever of them throw; each throw is caught where it
\* happens and none leaves emitUpdate, so the push handler or tick that emitted
\* goes on.
C28_ListenerIsolation ==
  [][delivery'.emits # delivery.emits =>
       /\ delivery'.received = listeners
       /\ Range(delivery'.threw) \subseteq Range(listeners)
       /\ ~delivery'.escaped
       /\ listeners' = listeners]_vars

\* C28 witness: three listeners, the first one threw, all three received
C28_Witness ==
  /\ Len(listeners) = 3
  /\ delivery.emits > 0
  /\ delivery.threw = <<listeners[1]>>
  /\ delivery.received = listeners
  /\ ~delivery.escaped

\* ------------------------------------------------------------------------
\* Claims about the orders resting at the exchange (checked under SpecSync)
\* ------------------------------------------------------------------------
\* the limit orders of a (side, reduce-only) pair that rest at the exchange
LiveOrders(side, reduceOnly) ==
  {o \in exOrders : o.type = "LIMIT" /\ o.side = side /\ o.reduceOnly = reduceOnly}

\* C29: the engine's own placements never leave more than one live order per
\* (side, reduce-only) pair at the exchange, whatever ticks, order pushes, cancel
\* failures and lock timeouts happened: no replacement is placed while the order
\* it supersedes is live.
C29_OneLiveOrderPerSide ==
  \A side \in {"BUY", "SELL"}, reduceOnly \in BOOLEAN :
    Cardinality(LiveOrders(side, reduceOnly)) <= 1

\* ------------------------------------------------------------------------
\* Claims about the rate-limit gate of tick
\* ------------------------------------------------------------------------
\* the entry step of a tick for which beforeCycle returns decision
GateStep(decision) ==
  /\ pc = "idle"
  /\ pc' # "idle"
  /\ beforeCycle(rateLimit, now)[1] = decision

\* the step goes to the finally-block without a gateway request and leaves the
\* cached snapshots, the open orders, the desired orders and the locks alone
GateReturns ==
  /\ pc' = "finally"
  /\ frame'.reply = <<>>
  /\ UNCHANGED <<exVars, accountSnapshot, depthSnapshot, openOrders, pendingCancelOrders,
                 desiredOrders, locks, timers, pending>>

\* C30: when beforeCycle returns paused the tick emits one snapshot and returns;
\* when it returns skip it returns without emitting; in both cases no gateway
\* request is issued and snapshots, open orders, desired orders and locks are
\* unchanged up to the end of the tick.
C30_RateLimitGate ==
  [][/\ GateStep("paused") => frame'.gateEmits = 1 /\ GateReturns
     /\ GateStep("skip") => frame'.gateEmits = 0 /\ GateReturns
     /\ (TickEnds /\ frame.decision \in {"paused", "skip"}) =>
          /\ frame.reply = <<>>
          /\ UNCHANGED <<exVars, accountSnapshot, depthSnapshot, openOrders,
                         pendingCancelOrders, desiredOrders, locks, timers, pending>>]_vars

\* C30 witness: a paused tick has emitted and is about to end, with an order in
\* the cache and the snapshots present
C30_Witness ==
  /\ pc = "finally"
  /\ frame.decision = "paused"
  /\ frame.gateEmits = 1
  /\ isReady
  /\ openOrders # {}

\* ------------------------------------------------------------------------
\* Claims about the desired orders of the symmetric maker
\* ------------------------------------------------------------------------
\* the step of tick that computes the desired orders
ComputesDesired == pc = "compute" /\ pc' = "cancelNext"

QuotedBid == roundDownToTick(getTopPrices(depthSnapshot).topBid - bidOffset, priceTick)
QuotedAsk == roundDownToTick(getTopPrices(depthSnapshot).topAsk + askOffset, priceTick)

\* the desired orders as a set
DesiredSet(desired) == {desired[i] : i \in 1..Len(desired)}

\* the desired set the statement prescribes for the position, book and controller
\* the tick reads
PrescribedDesired ==
  LET amt == getPosition(accountSnapshot).positionAmt
  IN IF Abs(amt) < EPS
     THEN IF shouldBlockEntries(rateLimit) THEN {}
          ELSE {Quote("BUY", QuotedBid, tradeAmount, FALSE),
                Quote("SELL", QuotedAsk, tradeAmount, FALSE)}
     ELSE {Quote(IF amt > 0 THEN "SELL" ELSE "BUY",
                 IF amt > 0 THEN QuotedAsk ELSE QuotedBid, Abs(amt), TRUE)}

\* C31 (as stated): besides the computed set being the prescribed one, the stored
\* desired set never holds a non-reduce-only order while a position is open.
C31_DesiredNeverEntersWhileOpen ==
  Abs(getPosition(accountSnapshot).positionAmt) >= EPS =>
    \A q \in DesiredSet(desiredOrders) : q.reduceOnly

\* C31 (amended): the tick that computes the desired orders stores exactly the
\* prescribed set for the position, the book and the entry block it reads, with
\* no duplicates; in particular the set it computes for an open position holds
\* no non-reduce-only order.
C31_DesiredAsComputed ==
  [][ComputesDesired =>
       /\ DesiredSet(desiredOrders') = PrescribedDesired
       /\ Len(desiredOrders') = Cardinality(PrescribedDesired)
       /\ Abs(getPosition(accountSnapshot).positionAmt) >= EPS =>
            \A q \in DesiredSet(desiredOrders') : q.reduceOnly]_vars

\* C31 witness: a flat engine with entries blocked has computed the empty set
C31_Witness ==
  /\ pc = "cancelNext"
  /\ frame.ret = "place"
  /\ frame.toCancel = {} /\ frame.cancelReq = {}
  /\ Abs(frame.position.positionAmt) < EPS
  /\ shouldBlockEntries(rateLimit)
  /\ desiredOrders = <<>>

\* ------------------------------------------------------------------------
\* Claims about the forced exit of the offset maker (checked under SpecOffset)
\* ------------------------------------------------------------------------
\* the depth sum on the side of the position, and on the other side
OwnSideSum ==
  IF offset.positionAmt > 0 THEN evaluateDepth(offset).buySum
  ELSE evaluateDepth(offset).sellSum

OtherSideSum ==
  IF offset.positionAmt > 0 THEN evaluateDepth(offset).sellSum
  ELSE evaluateDepth(offset).buySum

\* a tick of a positioned offset maker passes handleImbalanceExit
OffsetDecides ==
  offset.pc = "idle" /\ offset'.pc # "idle" /\ Abs(offset.positionAmt) >= EPS

\* C32: a positioned offset maker force-exits by market close, and does not quote
\* in that tick, if and only if the depth sum on the position's own side is zero
\* or at most one sixth of the other side's sum (exactly one sixth included).
C32_ForcedExitIff ==
  [][/\ OffsetDecides =>
          (offset'.pc = "awaitClose" <=>
             (OwnSideSum = 0 \/ OwnSideSum * 6 <= OtherSideSum))
     /\ (offset.pc = "awaitClose" /\ offset'.pc = "idle") => ~offset'.quoted]_vars

\* ------------------------------------------------------------------------
\* Claims about the order of the requests of syncOrders
\* ------------------------------------------------------------------------
\* placeOrder is called for the head of the plan's placements
PlaceRequested == pc = "placeNext" /\ pc' = "awaitPlace"

C34_FieldsFollowState ==
  /\ rateLimit.entriesSuppressed <=> rateLimit.state # "normal"
  /\ rateLimit.lastRateLimitAt > 0 <=> rateLimit.state # "normal"
  /\ rateLimit.pausedUntil # <<>> <=> rateLimit.state = "paused"

\* C34 witness: an overload after the start degraded the controller, and
\* onCycleComplete has now returned it to normal and lifted the suppression
C34_Witness ==
  /\ rlOp.op = "onCycleComplete"
  /\ rlOp.from.state = "degraded"
  /\ rlOp.from.entriesSuppressed
  /\ rateLimit.state = "normal"
  /\ ~rateLimit.entriesSuppressed
  /\ lastOverloadAt > StartTime

\* ------------------------------------------------------------------------
\* Claims about where a tick lets the controller recover
\* ------------------------------------------------------------------------
\* the controller becomes normal in this step
NormalReached == rateLimit.state # "normal" /\ rateLimit'.state = "normal"

\* a tick invoked while another one runs is dropped at the processing flag
TickDropped == ~frame.reentered /\ frame'.reentered

\* C35 (as stated): the controller becomes normal only from degraded, at the end
\* of a tick whose beforeCycle decision was run and that had no rate-limit
\* error; a skipped or paused tick never makes it normal, and a dropped
\* re-entrant tick does not call onCycleComplete.
C35_RecoveryOnlyAfterRun ==
  [][/\ NormalReached =>
          /\ rateLimit.state = "degraded"
          /\ TickEnds /\ pc = "finally"
          /\ frame.decision = "run"
          /\ ~frame.hadRateLimit
     /\ TickDropped => rateLimit' = rateLimit /\ pc' = pc]_vars

\* C35 (amended): the controller becomes normal only from degraded, in the
\* finally-block of a tick that had no rate-limit error and whose decision was
\* run or skip; a paused tick never makes it normal, and a dropped re-entrant
\* tick does not call onCycleComplete.
C35_RecoveryOnlyInFinally ==
  [][/\ NormalReached =>
          /\ rateLimit.state = "degraded"
          /\ TickEnds /\ pc = "finally"
          /\ frame.decision \in {"run", "skip"}
          /\ ~frame.hadRateLimit
          /\ now - rateLimit.lastRateLimitAt >= recoveryMs
     /\ TickDropped => rateLimit' = rateLimit /\ pc' = pc]_vars

\* C35 witness: a skipped tick of a degraded controller stands at its
\* finally-block with the recovery window elapsed: onCycleComplete(false) is
\* the next step of the tick
C35_Witness ==
  /\ pc = "finally"
  /\ frame.decision = "skip"
  /\ ~frame.hadRateLimit
  /\ rateLimit.state = "degraded"
  /\ now - rateLimit.lastRateLimitAt >= recoveryMs
  /\ onCycleComplete(rateLimit, FALSE, now).state = "normal"

\* ------------------------------------------------------------------------
\* Claims about pendingCancelOrders
\* ------------------------------------------------------------------------
\* a cancel request is issued by syncOrders or flushOrders
CancelRequested == pc = "cancelNext" /\ pc' = "awaitCancel"

\* the watchOrders handler runs
OrderPushed == orderFeed # <<>> /\ orderFeed' = Tail(orderFeed) /\ pc' = pc

\* the cancel of id ends as already gone or as an error
CancelForgot(id) ==
  /\ pc = "awaitCancel"
  /\ frame.cur[1].orderId = id
  /\ frame'.cancelResult \in {"unknown"} \cup GatewayErrors

\* the cancelAllOrders of the startup reset succeeded
StartupCleared == pc = "awaitReset" /\ frame'.reply = <<"cancelAll", "ok">>

\* C36: no cancel request is issued for an id already in pendingCancelOrders; an
\* id leaves the set only by an order push that no longer lists it, by its own
\* cancel ending as already-gone or error, or by the startup reset; right after
\* an order push the set holds only ids of the cached open orders.
C36_PendingCancelBookkeeping ==
  [][/\ CancelRequested =>
          /\ frame'.cur[1].orderId \notin pendingCancelOrders
          /\ pendingCancelOrders' = pendingCancelOrders \cup {frame'.cur[1].orderId}
     /\ \A id \in pendingCancelOrders \ pendingCancelOrders' :
          \/ OrderPushed /\ id \notin OrderIds(openOrders')
          \/ CancelForgot(id)
          \/ StartupCleared
     /\ OrderPushed => pendingCancelOrders' \subseteq OrderIds(openOrders')]_vars

\* C36 witness: flushOrders meets an order whose cancel syncOrders has already
\* requested in this tick, and will skip it
C36_Witness ==
  /\ pc = "cancelNext"
  /\ frame.ret # "place"
  /\ \E o \in frame.toCancel : o.orderId \in pendingCancelOrders

\* ------------------------------------------------------------------------
\* Claims about the trade amount and the loss limit of the depth-imbalance engine
\* ------------------------------------------------------------------------
\* currentLossLimit / lossLimit = currentTradeAmount / tradeAmount, cross-multiplied
\* (currentLossLimit is kept in units of lossLimit / LossUnit)
LimitMatchesAmount(limit, amount) ==
  limit * depthTradeAmount = amount * depthLossLimit * LossUnit

\* C37: between ticks the active loss limit and the trade amount are in the same
\* proportion to their configured values, also after an entry that finally
\* failed; neither ever increases, and the trade amount stays at or above
\* tradeAmount / 128.
C37_LimitFollowsAmount ==
  [][/\ pc' = "idle" => LimitMatchesAmount(currentLossLimit', currentTradeAmount')
     /\ currentLossLimit' <= currentLossLimit
     /\ currentTradeAmount' <= currentTradeAmount
     /\ currentTradeAmount' >= minTradeAmount]_vars

\* C38: within one tick of the depth-imbalance engine the guarded market close is
\* invoked at most once: marketExit never reaches marketClose in the try-block
\* of a tick that has already invoked it.
C38_CloseInvokedOnce ==
  [][(pc = "close" /\ frame.ctx = "try") => frame.close = "none"]_vars

\* ------------------------------------------------------------------------
\* Claim about the recovery of the RateLimitController (checked under SpecRecovery)
\* ------------------------------------------------------------------------
\* C39: when registerRateLimit is not called again, ticks keep occurring and time
\* advances, a paused or degraded controller eventually is normal and
\* shouldBlockEntries() is false.
C39_RecoveryIsLive ==
  (rateLimit.state \in {"paused", "degraded"})
    ~> (rateLimit.state = "normal" /\ ~shouldBlockEntries(rateLimit))

\* C39 witness: a finally-block has made a degraded controller normal, the pause
\* window after its last overload being over, and entries are allowed again
C39_Witness ==
  /\ rlOp.op = "onCycleComplete"
  /\ rlOp.from.state = "degraded"
  /\ rlOp.from.lastRateLimitAt = lastOverloadAt
  /\ lastOverloadAt + pauseMs <= now
  /\ rateLimit.state = "normal"
  /\ ~shouldBlockEntries(rateLimit)

\* ------------------------------------------------------------------------
\* Claim about order pushes and the category locks
\* ------------------------------------------------------------------------
\* the pushed list holds the pending order of the category, still live
ListsPending(type, orders) ==
  \E o \in orders : o.orderId = pending[type] /\ o.status \in LiveStatuses

\* C40: an order push releases exactly the categories with a recorded pending id
\* whose order the list no longer holds as live; every other category keeps its
\* busy flag, pending id and timer, in particular a category locked for a create
\* request that has not returned yet.
C40_PushReleasesRecordedOnly ==
  [][OrderPushed =>
       \A c \in Categories :
         IF pending[c] # 0 /\ ~ListsPending(c, Head(orderFeed).orders)
         THEN ~locks'[c] /\ ~timers'[c] /\ pending'[c] = 0
         ELSE locks'[c] = locks[c] /\ timers'[c] = timers[c] /\ pending'[c] = pending[c]]_vars

\* C40 witness: the create request of a quote is outstanding, its category busy
\* with no pending id; an order push has arrived since the lock was taken and
\* released MARKET_CLOSE, whose pending order it no longer listed, and the LIMIT
\* lock and its timer are as they were
C40_Witness ==
  /\ pc = "awaitPlace"
  /\ locks["LIMIT"] /\ timers["LIMIT"] /\ pending["LIMIT"] = 0
  /\ lockOp.op = "release" /\ lockOp.by = "push" /\ lockOp.types = {"MARKET_CLOSE"}
  /\ ~locks["MARKET_CLOSE"] /\ ~timers["MARKET_CLOSE"] /\ pending["MARKET_CLOSE"] = 0

====
